---- MODULE Spec2Model ----
(***************************************************************************)
(* Model of the violation-extraction and matching engine of Refactoraptor. *)
(*                                                                         *)
(* Three copies of SOLIDViolationComparator live in the repository:        *)
(*   "t2"     src/vio_compare_t2.py                   (embedded label)     *)
(*   "dip"    src/reprocess_dip/violation_comparison.py (embedded label)   *)
(*   "trials" src/analytic_reports_trials/violations_comparison.py         *)
(*                                                     (external pool)     *)
(* A text is a sequence of one-character strings; the regular expressions  *)
(* of the source are evaluated on it character by character.               *)
(***************************************************************************)
EXTENDS Integers, Sequences, FiniteSets, TLC

VARIABLES
    impl,                       \* which comparator runs: "t2", "dip", "trials"
    strategy,                   \* the strategy / prompt_type of the call or run
    failed_extraction_cases,    \* self.failed_extraction_cases
    multiple_violations_cases,  \* self.multiple_violations_cases
    extracted_patterns,         \* self.extracted_patterns
    gt_data,                    \* the ground-truth pool of the run (trials)
    pc,                         \* position of the driver
    cur_vt,                     \* violation type process_violation_type works on
    violation_results,          \* local list of process_violation_type
    results,                    \* the results dict of compare_model_outputs
    loaded,                     \* how many records of output_data were read
    cur_item,                   \* the record the loop of process_violation_type is at
    ex_text,                    \* argument of a stand-alone extractor call
    ex_found,                   \* the labels it recognized
    ex_ret,                     \* the label it returned, or None
    fm_input,                   \* output snippet of a stand-alone matcher call
    fm_result,                  \* its return value
    model_folders,              \* the folders run_full_comparison found, in order
    output_files,               \* folder -> the output file read for it
    all_results,                \* all_results of run_full_comparison
    written                     \* file name -> what a save_* call wrote to it

\* the state of a run_full_comparison call and of the files written
run_vars == <<model_folders, output_files, all_results, written>>

vars == <<run_vars, impl, strategy, failed_extraction_cases, multiple_violations_cases,
          extracted_patterns, gt_data, pc, cur_vt, violation_results, results,
          loaded, ex_text, ex_found, ex_ret, fm_input, fm_result, cur_item>>

-----------------------------------------------------------------------------
(* Bounds of the model.                                                    *)

MaxTokens == 3
MaxPool == 2
MaxItems == 3
MaxLines == 2
MaxRows == 2

-----------------------------------------------------------------------------
(* Characters and Python's str / re character classes.                     *)

\* Python's None.  A str the program stores is a TLA+ string; a str a regular
\* expression or a character operation reads is the sequence of its characters.
None == "<None>"

\* the str of a sequence of characters
RECURSIVE Str(_)
Str(cs) == IF cs = <<>> THEN "" ELSE cs[1] \o Str(Tail(cs))

UpperLetters == <<"A","B","C","D","E","F","G","H","I","J","K","L","M",
                  "N","O","P","Q","R","S","T","U","V","W","X","Y","Z">>
LowerLetters == <<"a","b","c","d","e","f","g","h","i","j","k","l","m",
                  "n","o","p","q","r","s","t","u","v","w","x","y","z">>

Range(s) == {s[i] : i \in DOMAIN s}

\* the first of the positions js, 0 when there is none
Leftmost(js) == IF js = {} THEN 0 ELSE CHOOSE j \in js : \A k \in js : j <= k

UpperSet == Range(UpperLetters)
LowerSet == Range(LowerLetters)

UpperOf == [c \in LowerSet |->
              UpperLetters[CHOOSE i \in DOMAIN LowerLetters : LowerLetters[i] = c]]
LowerOf == [c \in UpperSet |->
              LowerLetters[CHOOSE i \in DOMAIN UpperLetters : UpperLetters[i] = c]]

\* str.upper() and str.lower() on one character
ToUpper(c) == IF c \in LowerSet THEN UpperOf[c] ELSE c
ToLower(c) == IF c \in UpperSet THEN LowerOf[c] ELSE c

\* str.upper() and str.lower()
Upper(s) == [i \in DOMAIN s |-> ToUpper(s[i])]
Lower(s) == [i \in DOMAIN s |-> ToLower(s[i])]

\* [A-Z] under re.IGNORECASE
IsLetter(c) == c \in UpperSet \/ c \in LowerSet

\* \w
IsWordChar(c) == IsLetter(c) \/ c \in {"0","1","2","3","4","5","6","7","8","9","_"}

\* \s
IsSpace(c) == c \in {" ", "\n", "\t", "\r"}

\* a literal of a pattern matches at position i, ignoring case
LitAt(t, i, lit) ==
    /\ i >= 1
    /\ i + Len(lit) - 1 <= Len(t)
    /\ \A k \in 1..Len(lit) : ToUpper(t[i + k - 1]) = ToUpper(lit[k])

\* [A-Z]{n} matches at position i, ignoring case
LettersAt(t, i, n) ==
    /\ i + n - 1 <= Len(t)
    /\ \A k \in 0..(n - 1) : IsLetter(t[i + k])

\* \b before position i (i = Len(t)+1 is the end of the text)
WordBoundary(t, i) ==
    LET before == i > 1 /\ i - 1 <= Len(t) /\ IsWordChar(t[i - 1])
        after  == i >= 1 /\ i <= Len(t) /\ IsWordChar(t[i])
    IN before # after

Stars == <<"*","*">>
NONE == <<"N","O","N","E">>
SRP == <<"S","R","P">>
OCP == <<"O","C","P">>
LSP == <<"L","S","P">>
ISP == <<"I","S","P">>
DIP == <<"D","I","P">>
MostImpactful == <<"M","O","S","T"," ","I","M","P","A","C","T","F","U","L"," ",
                   "V","I","O","L","A","T","I","O","N",":">>

\* the alternatives SRP|OCP|LSP|ISP|DIP|NONE of the keyword pattern
KeywordWords == {SRP, OCP, LSP, ISP, DIP, NONE}

\* the closed vocabulary: ['SRP', 'OCP', 'LSP', 'ISP', 'DIP', 'NONE']
Vocabulary == {"SRP", "OCP", "LSP", "ISP", "DIP", "NONE"}

NoMatch == [ok |-> FALSE, group |-> <<>>, next |-> 0]
Match(g, n) == [ok |-> TRUE, group |-> g, next |-> n]

-----------------------------------------------------------------------------
(* The regular expressions of the extractors.  A pattern is named by its   *)
(* source text; XxxAt(t, i) is re's attempt to match it at position i and  *)
(* gives the captured group and the position after the match.              *)

BoldPattern     == "\\*\\*([A-Z]{2,3}|NONE)\\*\\*"
KeywordPattern  == "\\b(SRP|OCP|LSP|ISP|DIP|NONE)\\b"
EnsemblePattern == "(?:MOST IMPACTFUL VIOLATION:\\s*([A-Z]{2,3}|NONE)|\\*\\*([A-Z]{2,3}|NONE)\\*\\*)"
ViolationExtractionPattern == "\\*\\*([A-Z]{3})\\*\\*"
NoneResponsePattern == "\\*\\*NONE\\*\\*"

\* \*\*([A-Z]{2,3}|NONE)\*\* : the greedy {2,3} tries three letters, then two,
\* then the alternative NONE
BoldAt(t, i) ==
    IF ~LitAt(t, i, Stars) THEN NoMatch
    ELSE IF LettersAt(t, i + 2, 3) /\ LitAt(t, i + 5, Stars)
         THEN Match(SubSeq(t, i + 2, i + 4), i + 7)
    ELSE IF LettersAt(t, i + 2, 2) /\ LitAt(t, i + 4, Stars)
         THEN Match(SubSeq(t, i + 2, i + 3), i + 6)
    ELSE IF LitAt(t, i + 2, NONE) /\ LitAt(t, i + 6, Stars)
         THEN Match(SubSeq(t, i + 2, i + 5), i + 8)
    ELSE NoMatch

\* \b(SRP|OCP|LSP|ISP|DIP|NONE)\b
KeywordAt(t, i) ==
    IF ~WordBoundary(t, i) THEN NoMatch
    ELSE LET hits == {w \in KeywordWords :
                        LitAt(t, i, w) /\ WordBoundary(t, i + Len(w))}
         IN IF hits = {} THEN NoMatch
            ELSE LET w == CHOOSE w \in hits : TRUE
                 IN Match(SubSeq(t, i, i + Len(w) - 1), i + Len(w))

\* \s* : the position after the longest run of white space from i
RECURSIVE SkipSpaces(_, _)
SkipSpaces(t, i) ==
    IF i <= Len(t) /\ IsSpace(t[i]) THEN SkipSpaces(t, i + 1) ELSE i

\* MOST IMPACTFUL VIOLATION:\s*([A-Z]{2,3}|NONE) : group 1.  After the white
\* space the greedy {2,3} takes three letters when it can, else two; the
\* alternative NONE is tried only when fewer than two letters follow.
LabeledLineAt(t, i) ==
    IF ~LitAt(t, i, MostImpactful) THEN NoMatch
    ELSE LET j == SkipSpaces(t, i + Len(MostImpactful))
         IN IF LettersAt(t, j, 3) THEN Match(SubSeq(t, j, j + 2), j + 3)
            ELSE IF LettersAt(t, j, 2) THEN Match(SubSeq(t, j, j + 1), j + 2)
            ELSE IF LitAt(t, j, NONE) THEN Match(SubSeq(t, j, j + 3), j + 4)
            ELSE NoMatch

\* the two-branch ensemble pattern; the value is match.group(1) or match.group(2)
EnsembleAt(t, i) ==
    IF LabeledLineAt(t, i).ok THEN LabeledLineAt(t, i) ELSE BoldAt(t, i)

\* \*\*([A-Z]{3})\*\*
ViolationExtractionAt(t, i) ==
    IF LitAt(t, i, Stars) /\ LettersAt(t, i + 2, 3) /\ LitAt(t, i + 5, Stars)
    THEN Match(SubSeq(t, i + 2, i + 4), i + 7)
    ELSE NoMatch

\* \*\*NONE\*\*
NoneResponseAt(t, i) ==
    IF LitAt(t, i, Stars) /\ LitAt(t, i + 2, NONE) /\ LitAt(t, i + 6, Stars)
    THEN Match(SubSeq(t, i + 2, i + 5), i + 8)
    ELSE NoMatch

MatchAt(pattern, t, i) ==
    CASE pattern = BoldPattern -> BoldAt(t, i)
      [] pattern = KeywordPattern -> KeywordAt(t, i)
      [] pattern = EnsemblePattern -> EnsembleAt(t, i)
      [] pattern = ViolationExtractionPattern -> ViolationExtractionAt(t, i)
      [] pattern = NoneResponsePattern -> NoneResponseAt(t, i)

\* re.findall / re.finditer: the groups of the non-overlapping matches, left
\* to right, from position i on
\* the position of the leftmost match from position i on, 0 when there is none
FirstMatchFrom(pattern, t, i) ==
    Leftmost({j \in i..Len(t) : MatchAt(pattern, t, j).ok})

RECURSIVE FindAllFrom(_, _, _)
RECURSIVE GroupAndRest(_, _, _)
FindAllFrom(pattern, t, i) ==
    GroupAndRest(pattern, t, FirstMatchFrom(pattern, t, i))

\* the group of the match at position j and those of the matches after it
GroupAndRest(pattern, t, j) ==
    IF j = 0 THEN <<>>
    ELSE <<MatchAt(pattern, t, j).group>>
            \o FindAllFrom(pattern, t, MatchAt(pattern, t, j).next)

re_findall(pattern, t) == FindAllFrom(pattern, t, 1)

\* re.search gives None when nothing matches
NoGroup == <<None>>

\* re.search: the group of the leftmost match, or NoGroup
re_search(pattern, t) ==
    LET all == re_findall(pattern, t)
    IN IF all = <<>> THEN NoGroup ELSE all[1]

-----------------------------------------------------------------------------
(* The regular expressions of the language and violation analyses.  A      *)
(* pattern is the tree Python's parser makes of its source; Ends lists the *)
(* ways a node matches from a position in the order the backtracking       *)
(* matcher of re tries them, so the first one is the match re reports.     *)

\* the nodes of a pattern
Lit(s) == [t |-> "lit", s |-> s]
In(neg, chars, cats) == [t |-> "in", neg |-> neg, chars |-> chars, cats |-> cats]
AnyChar == [t |-> "any"]
At(k) == [t |-> "at", k |-> k]
Cat(ns) == [t |-> "cat", ns |-> ns]
Alt(ns) == [t |-> "alt", ns |-> ns]
Rep(min, max, greedy, n) ==
    [t |-> "rep", min |-> min, max |-> max, greedy |-> greedy, n |-> n]
Grp(k, n) == [t |-> "grp", k |-> k, n |-> n]
Look(n) == [t |-> "look", n |-> n]

\* the upper limit of *, + and {n,}
MAXREPEAT == -1

\* the flags of a call
IgnoreCase == [ignorecase |-> TRUE, dotall |-> FALSE]
IgnoreCaseDotAll == [ignorecase |-> TRUE, dotall |-> TRUE]

\* character c is in the class node n
InClass(n, c, fl) ==
    LET in(d) == \/ d \in n.chars
                 \/ "w" \in n.cats /\ IsWordChar(d)
                 \/ "s" \in n.cats /\ IsSpace(d)
        hit == in(c) \/ (fl.ignorecase /\ (in(ToUpper(c)) \/ in(ToLower(c))))
    IN hit # n.neg

\* the literal lit stands at position i of text
LitHere(text, i, lit, fl) ==
    /\ i + Len(lit) - 1 <= Len(text)
    /\ \A k \in 1..Len(lit) :
          IF fl.ignorecase THEN ToLower(text[i + k - 1]) = ToLower(lit[k])
          ELSE text[i + k - 1] = lit[k]

\* the assertions \b and \Z
AtHolds(k, text, i) ==
    CASE k = "boundary" -> WordBoundary(text, i)
      [] k = "end_string" -> i = Len(text) + 1

\* one way of matching: where it ends and what the groups captured
End(pos, caps) == [pos |-> pos, caps |-> caps]

\* the ends es, with group k set to the span from i to each end
Captured(es, k, i) ==
    [j \in DOMAIN es |-> End(es[j].pos, [es[j].caps EXCEPT ![k] = <<i, es[j].pos>>])]

RECURSIVE Ends(_, _, _, _, _)
RECURSIVE EndsEach(_, _, _, _)
RECURSIVE EndsCat(_, _, _, _)
RECURSIVE EndsAlt(_, _, _, _, _)
RECURSIVE EndsRep(_, _, _, _, _, _, _, _)
RECURSIVE EndsRepEach(_, _, _, _, _, _, _)

\* the ways node n matches text from position i, in the order of trial
Ends(n, text, i, caps, fl) ==
    CASE n.t = "lit" ->
            IF LitHere(text, i, n.s, fl) THEN <<End(i + Len(n.s), caps)>> ELSE <<>>
      [] n.t = "in" ->
            IF i <= Len(text) /\ InClass(n, text[i], fl)
            THEN <<End(i + 1, caps)>> ELSE <<>>
      [] n.t = "any" ->
            IF i <= Len(text) /\ (fl.dotall \/ text[i] # "\n")
            THEN <<End(i + 1, caps)>> ELSE <<>>
      [] n.t = "at" ->
            IF AtHolds(n.k, text, i) THEN <<End(i, caps)>> ELSE <<>>
      [] n.t = "cat" -> EndsCat(n.ns, text, <<End(i, caps)>>, fl)
      [] n.t = "alt" -> EndsAlt(n.ns, text, i, caps, fl)
      [] n.t = "rep" -> EndsRep(n.n, n.min, n.max, n.greedy, text, i, caps, fl)
      [] n.t = "grp" -> Captured(Ends(n.n, text, i, caps, fl), n.k, i)
      [] n.t = "look" ->
            IF Ends(n.n, text, i, caps, fl) # <<>> THEN <<End(i, caps)>> ELSE <<>>

\* the ways node n matches from each of the starts, in order
EndsEach(n, text, starts, fl) ==
    IF starts = <<>> THEN <<>>
    ELSE Ends(n, text, starts[1].pos, starts[1].caps, fl)
            \o EndsEach(n, text, Tail(starts), fl)

\* a concatenation: the nodes ns one after the other
EndsCat(ns, text, starts, fl) ==
    IF ns = <<>> \/ starts = <<>> THEN starts
    ELSE EndsCat(Tail(ns), text, EndsEach(ns[1], text, starts, fl), fl)

\* an alternation: the branches from left to right
EndsAlt(ns, text, i, caps, fl) ==
    IF ns = <<>> THEN <<>>
    ELSE Ends(ns[1], text, i, caps, fl) \o EndsAlt(Tail(ns), text, i, caps, fl)

\* the ends of one more round and the end of stopping here, in order of trial
InOrder(greedy, more, stop) == IF greedy THEN more \o stop ELSE stop \o more

\* a repetition: a greedy one tries one more round first, a lazy one last;
\* a round that consumes nothing is not repeated
EndsRep(n, min, max, greedy, text, i, caps, fl) ==
    InOrder(greedy,
            IF max = 0 THEN <<>>
            ELSE EndsRepEach(n, IF min > 0 THEN min - 1 ELSE 0,
                             IF max = MAXREPEAT THEN max ELSE max - 1,
                             greedy, text,
                             SelectSeq(Ends(n, text, i, caps, fl),
                                       LAMBDA e : e.pos > i),
                             fl),
            IF min = 0 THEN <<End(i, caps)>> ELSE <<>>)

EndsRepEach(n, min, max, greedy, text, starts, fl) ==
    IF starts = <<>> THEN <<>>
    ELSE EndsRep(n, min, max, greedy, text, starts[1].pos, starts[1].caps, fl)
            \o EndsRepEach(n, min, max, greedy, text, Tail(starts), fl)

NoHit == [ok |-> FALSE]

\* the first of the ends es of a match from position i
FirstEnd(es, i) ==
    IF es = <<>> THEN NoHit
    ELSE [ok |-> TRUE, start |-> i, pos |-> es[1].pos, caps |-> es[1].caps]

\* the match of pattern p that starts at position i, if there is one; after
\* an empty match the next one must not be empty at the same position
MatchHere(p, text, i, fl, must_advance) ==
    FirstEnd(SelectSeq(Ends(p.node, text, i, [k \in 1..p.groups |-> <<>>], fl),
                       LAMBDA e : ~must_advance \/ e.pos # i),
             i)

\* the match at position j of a search from position i, none when j is 0
MatchIfAt(p, text, j, i, fl, must_advance) ==
    IF j = 0 THEN NoHit ELSE MatchHere(p, text, j, fl, must_advance /\ j = i)

\* the start of the leftmost match from position i on
StartFrom(p, text, i, fl, must_advance) ==
    Leftmost({j \in i..(Len(text) + 1) :
                 MatchHere(p, text, j, fl, must_advance /\ j = i).ok})

\* the leftmost match from position i on
SearchFrom(p, text, i, fl, must_advance) ==
    MatchIfAt(p, text, StartFrom(p, text, i, fl, must_advance), i, fl,
              must_advance)

\* what findall lists for a match: the match when the pattern has no group,
\* the group when it has one, the tuple of the groups when it has more; a
\* group that took no part is ''
GroupText(text, m, k) ==
    IF m.caps[k] = <<>> THEN ""
    ELSE Str(SubSeq(text, m.caps[k][1], m.caps[k][2] - 1))

FindallItem(p, text, m) ==
    IF p.groups = 0 THEN Str(SubSeq(text, m.start, m.pos - 1))
    ELSE IF p.groups = 1 THEN GroupText(text, m, 1)
    ELSE [k \in 1..p.groups |-> GroupText(text, m, k)]

RECURSIVE FindallFrom(_, _, _, _, _)
RECURSIVE MatchAndRest(_, _, _, _)
FindallFrom(p, text, i, fl, must_advance) ==
    MatchAndRest(SearchFrom(p, text, i, fl, must_advance), p, text, fl)

\* the item of match m and those of the matches after it
MatchAndRest(m, p, text, fl) ==
    IF ~m.ok THEN <<>>
    ELSE <<FindallItem(p, text, m)>>
            \o FindallFrom(p, text, m.pos, fl, m.pos = m.start)

\* re.findall(p, text, flags)
findall(p, text, fl) == FindallFrom(p, text, 1, fl, FALSE)

\* bool(re.search(p, text, flags))
search(p, text, fl) == SearchFrom(p, text, 1, fl, FALSE).ok

\* shorthands for the nodes of \s+, \s*, \w+ and \w*
Space == In(FALSE, {}, {"s"})
Word == In(FALSE, {}, {"w"})
Plus(n) == Rep(1, MAXREPEAT, TRUE, n)
Star(n) == Rep(0, MAXREPEAT, TRUE, n)

\* self.regex_patterns: the patterns of the language analysis ...
regex_patterns ==
    [java_interface |->
        [src |-> "(?:public\\s+)?interface\\s+(\\w+)",
         groups |-> 1,
         node |->
            Cat(<<Rep(0, 1, TRUE, Cat(<<Lit(<<"p", "u", "b", "l", "i",
            "c">>), Plus(Space)>>)), Lit(<<"i", "n", "t", "e", "r", "f", "a",
            "c", "e">>), Plus(Space), Grp(1, Plus(Word))>>)],
     java_class |->
        [src |-> "(?:public\\s+)?class\\s+(\\w+)(?:\\s+implements\\s+(\\w+))?",
         groups |-> 2,
         node |->
            Cat(<<Rep(0, 1, TRUE, Cat(<<Lit(<<"p", "u", "b", "l", "i",
            "c">>), Plus(Space)>>)), Lit(<<"c", "l", "a", "s", "s">>),
            Plus(Space), Grp(1, Plus(Word)), Rep(0, 1, TRUE,
            Cat(<<Plus(Space), Lit(<<"i", "m", "p", "l", "e", "m", "e", "n",
            "t", "s">>), Plus(Space), Grp(2, Plus(Word))>>))>>)],
     java_constructor_injection |->
        [src |-> "public\\s+\\w+\\s*\\(\\s*\\w+\\s+\\w+\\s*\\)",
         groups |-> 0,
         node |->
            Cat(<<Lit(<<"p", "u", "b", "l", "i", "c">>), Plus(Space),
            Plus(Word), Star(Space), Lit(<<"(">>), Star(Space), Plus(Word),
            Plus(Space), Plus(Word), Star(Space), Lit(<<")">>)>>)],
     python_class |->
        [src |-> "class\\s+(\\w+)(?:\\s*\\([^)]*\\))?:",
         groups |-> 1,
         node |->
            Cat(<<Lit(<<"c", "l", "a", "s", "s">>), Plus(Space), Grp(1,
            Plus(Word)), Rep(0, 1, TRUE, Cat(<<Star(Space), Lit(<<"(">>),
            Rep(0, MAXREPEAT, TRUE, In(TRUE, {")"}, {})), Lit(<<")">>)>>)),
            Lit(<<":">>)>>)],
     python_init_injection |->
        [src |-> "def\\s+__init__\\s*\\(\\s*self\\s*,\\s*\\w+",
         groups |-> 0,
         node |->
            Cat(<<Lit(<<"d", "e", "f">>), Plus(Space), Lit(<<"_", "_", "i",
            "n", "i", "t", "_", "_">>), Star(Space), Lit(<<"(">>),
            Star(Space), Lit(<<"s", "e", "l", "f">>), Star(Space),
            Lit(<<",">>), Star(Space), Plus(Word)>>)],
     kotlin_interface |->
        [src |-> "interface\\s+(\\w+)",
         groups |-> 1,
         node |->
            Cat(<<Lit(<<"i", "n", "t", "e", "r", "f", "a", "c", "e">>),
            Plus(Space), Grp(1, Plus(Word))>>)],
     kotlin_class |->
        [src |-> "class\\s+(\\w+)(?:\\s*:\\s*(\\w+))?",
         groups |-> 2,
         node |->
            Cat(<<Lit(<<"c", "l", "a", "s", "s">>), Plus(Space), Grp(1,
            Plus(Word)), Rep(0, 1, TRUE, Cat(<<Star(Space), Lit(<<":">>),
            Star(Space), Grp(2, Plus(Word))>>))>>)],
     kotlin_constructor |->
        [src |-> "constructor\\s*\\(\\s*\\w+\\s*:\\s*\\w+\\s*\\)",
         groups |-> 0,
         node |->
            Cat(<<Lit(<<"c", "o", "n", "s", "t", "r", "u", "c", "t", "o",
            "r">>), Star(Space), Lit(<<"(">>), Star(Space), Plus(Word),
            Star(Space), Lit(<<":">>), Star(Space), Plus(Word), Star(Space),
            Lit(<<")">>)>>)],
     csharp_interface |->
        [src |-> "(?:public\\s+)?interface\\s+I(\\w+)",
         groups |-> 1,
         node |->
            Cat(<<Rep(0, 1, TRUE, Cat(<<Lit(<<"p", "u", "b", "l", "i",
            "c">>), Plus(Space)>>)), Lit(<<"i", "n", "t", "e", "r", "f", "a",
            "c", "e">>), Plus(Space), Lit(<<"I">>), Grp(1, Plus(Word))>>)],
     csharp_class |->
        [src |-> "(?:public\\s+)?class\\s+(\\w+)(?:\\s*:\\s*I?(\\w+))?",
         groups |-> 2,
         node |->
            Cat(<<Rep(0, 1, TRUE, Cat(<<Lit(<<"p", "u", "b", "l", "i",
            "c">>), Plus(Space)>>)), Lit(<<"c", "l", "a", "s", "s">>),
            Plus(Space), Grp(1, Plus(Word)), Rep(0, 1, TRUE,
            Cat(<<Star(Space), Lit(<<":">>), Star(Space), Rep(0, 1, TRUE,
            Lit(<<"I">>)), Grp(2, Plus(Word))>>))>>)],
     csharp_constructor_injection |->
        [src |-> "public\\s+\\w+\\s*\\(\\s*I?\\w+\\s+\\w+\\s*\\)",
         groups |-> 0,
         node |->
            Cat(<<Lit(<<"p", "u", "b", "l", "i", "c">>), Plus(Space),
            Plus(Word), Star(Space), Lit(<<"(">>), Star(Space), Rep(0, 1,
            TRUE, Lit(<<"I">>)), Plus(Word), Plus(Space), Plus(Word),
            Star(Space), Lit(<<")">>)>>)]]

\* ... and self.regex_patterns['dip_patterns'], in the order of its items()
dip_patterns ==
    <<[name |-> "interface_creation",
       pattern |->
          [src |-> "(?:interface|abstract\\s+class)\\s+\\w+",
           groups |-> 0,
           node |->
              Cat(<<Alt(<<Lit(<<"i", "n", "t", "e", "r", "f", "a", "c",
              "e">>), Cat(<<Lit(<<"a", "b", "s", "t", "r", "a", "c", "t">>),
              Plus(Space), Lit(<<"c", "l", "a", "s", "s">>)>>)>>),
              Plus(Space), Plus(Word)>>)]],
      [name |-> "dependency_injection",
       pattern |->
          [src |-> "(?:constructor|__init__|init)\\s*\\([^)]*\\w+\\s+\\w+",
           groups |-> 0,
           node |->
              Cat(<<Alt(<<Lit(<<"c", "o", "n", "s", "t", "r", "u", "c", "t",
              "o", "r">>), Lit(<<"_", "_", "i", "n", "i", "t", "_", "_">>),
              Lit(<<"i", "n", "i", "t">>)>>), Star(Space), Lit(<<"(">>),
              Rep(0, MAXREPEAT, TRUE, In(TRUE, {")"}, {})), Plus(Word),
              Plus(Space), Plus(Word)>>)]],
      [name |-> "abstraction_usage",
       pattern |->
          [src |-> "private\\s+(?:final\\s+)?\\w+\\s+\\w+;|self\\.\\w+\\s*=\\s*\\w+",
           groups |-> 0,
           node |->
              Alt(<<Cat(<<Lit(<<"p", "r", "i", "v", "a", "t", "e">>),
              Plus(Space), Rep(0, 1, TRUE, Cat(<<Lit(<<"f", "i", "n", "a",
              "l">>), Plus(Space)>>)), Plus(Word), Plus(Space), Plus(Word),
              Lit(<<";">>)>>), Cat(<<Lit(<<"s", "e", "l", "f", ".">>),
              Plus(Word), Star(Space), Lit(<<"=">>), Star(Space),
              Plus(Word)>>)>>)]]>>

\* self.regex_patterns['srp_patterns']
srp_patterns ==
    <<[name |-> "class_separation",
       pattern |->
          [src |-> "class\\s+\\w+.*?(?=class|\\Z)",
           groups |-> 0,
           node |->
              Cat(<<Lit(<<"c", "l", "a", "s", "s">>), Plus(Space),
              Plus(Word), Rep(0, MAXREPEAT, FALSE, AnyChar),
              Look(Alt(<<Lit(<<"c", "l", "a", "s", "s">>),
              At("end_string")>>))>>)]],
      [name |-> "method_extraction",
       pattern |->
          [src |-> "(?:public|private|def)\\s+\\w+\\s*\\([^)]*\\)",
           groups |-> 0,
           node |->
              Cat(<<Alt(<<Lit(<<"p", "u", "b", "l", "i", "c">>), Lit(<<"p",
              "r", "i", "v", "a", "t", "e">>), Lit(<<"d", "e", "f">>)>>),
              Plus(Space), Plus(Word), Star(Space), Lit(<<"(">>), Rep(0,
              MAXREPEAT, TRUE, In(TRUE, {")"}, {})), Lit(<<")">>)>>)]],
      [name |-> "responsibility_split",
       pattern |->
          [src |-> "class\\s+\\w*(?:Service|Manager|Handler|Controller)",
           groups |-> 0,
           node |->
              Cat(<<Lit(<<"c", "l", "a", "s", "s">>), Plus(Space),
              Star(Word), Alt(<<Lit(<<"S", "e", "r", "v", "i", "c", "e">>),
              Lit(<<"M", "a", "n", "a", "g", "e", "r">>), Lit(<<"H", "a",
              "n", "d", "l", "e", "r">>), Lit(<<"C", "o", "n", "t", "r", "o",
              "l", "l", "e", "r">>)>>)>>)]]>>

\* self.regex_patterns['isp_patterns']
isp_patterns ==
    <<[name |-> "interface_segregation",
       pattern |->
          [src |-> "interface\\s+\\w+\\s*\\{[^}]*\\}",
           groups |-> 0,
           node |->
              Cat(<<Lit(<<"i", "n", "t", "e", "r", "f", "a", "c", "e">>),
              Plus(Space), Plus(Word), Star(Space), Lit(<<"{">>), Rep(0,
              MAXREPEAT, TRUE, In(TRUE, {"}"}, {})), Lit(<<"}">>)>>)]],
      [name |-> "small_interfaces",
       pattern |->
          [src |-> "interface\\s+\\w+\\s*\\{[^{]*(?:\\w+\\s*\\([^)]*\\);?\\s*){1,3}[^}]*\\}",
           groups |-> 0,
           node |->
              Cat(<<Lit(<<"i", "n", "t", "e", "r", "f", "a", "c", "e">>),
              Plus(Space), Plus(Word), Star(Space), Lit(<<"{">>), Rep(0,
              MAXREPEAT, TRUE, In(TRUE, {"{"}, {})), Rep(1, 3, TRUE,
              Cat(<<Plus(Word), Star(Space), Lit(<<"(">>), Rep(0, MAXREPEAT,
              TRUE, In(TRUE, {")"}, {})), Lit(<<")">>), Rep(0, 1, TRUE,
              Lit(<<";">>)), Star(Space)>>)), Rep(0, MAXREPEAT, TRUE,
              In(TRUE, {"}"}, {})), Lit(<<"}">>)>>)]],
      [name |-> "multiple_interfaces",
       pattern |->
          [src |-> "class\\s+\\w+\\s+implements\\s+\\w+(?:\\s*,\\s*\\w+)+",
           groups |-> 0,
           node |->
              Cat(<<Lit(<<"c", "l", "a", "s", "s">>), Plus(Space),
              Plus(Word), Plus(Space), Lit(<<"i", "m", "p", "l", "e", "m",
              "e", "n", "t", "s">>), Plus(Space), Plus(Word), Rep(1,
              MAXREPEAT, TRUE, Cat(<<Star(Space), Lit(<<",">>), Star(Space),
              Plus(Word)>>))>>)]]>>

\* self.regex_patterns['lsp_patterns']
lsp_patterns ==
    <<[name |-> "proper_inheritance",
       pattern |->
          [src |-> "class\\s+\\w+\\s+extends\\s+\\w+",
           groups |-> 0,
           node |->
              Cat(<<Lit(<<"c", "l", "a", "s", "s">>), Plus(Space),
              Plus(Word), Plus(Space), Lit(<<"e", "x", "t", "e", "n", "d",
              "s">>), Plus(Space), Plus(Word)>>)]],
      [name |-> "override_behavior",
       pattern |->
          [src |-> "@Override|override\\s+",
           groups |-> 0,
           node |->
              Alt(<<Lit(<<"@", "O", "v", "e", "r", "r", "i", "d", "e">>),
              Cat(<<Lit(<<"o", "v", "e", "r", "r", "i", "d", "e">>),
              Plus(Space)>>)>>)]],
      [name |-> "exception_throwing",
       pattern |->
          [src |-> "throw\\s+new\\s+\\w+Exception",
           groups |-> 0,
           node |->
              Cat(<<Lit(<<"t", "h", "r", "o", "w">>), Plus(Space), Lit(<<"n",
              "e", "w">>), Plus(Space), Plus(Word), Lit(<<"E", "x", "c", "e",
              "p", "t", "i", "o", "n">>)>>)]]>>

\* self.regex_patterns['ocp_patterns']
ocp_patterns ==
    <<[name |-> "polymorphism_usage",
       pattern |->
          [src |-> "@Override|override\\s+",
           groups |-> 0,
           node |->
              Alt(<<Lit(<<"@", "O", "v", "e", "r", "r", "i", "d", "e">>),
              Cat(<<Lit(<<"o", "v", "e", "r", "r", "i", "d", "e">>),
              Plus(Space)>>)>>)]],
      [name |-> "interface_implementation",
       pattern |->
          [src |-> "implements\\s+\\w+",
           groups |-> 0,
           node |->
              Cat(<<Lit(<<"i", "m", "p", "l", "e", "m", "e", "n", "t",
              "s">>), Plus(Space), Plus(Word)>>)]],
      [name |-> "abstract_methods",
       pattern |->
          [src |-> "abstract\\s+\\w+\\s+\\w+\\s*\\(",
           groups |-> 0,
           node |->
              Cat(<<Lit(<<"a", "b", "s", "t", "r", "a", "c", "t">>),
              Plus(Space), Plus(Word), Plus(Space), Plus(Word), Star(Space),
              Lit(<<"(">>)>>)]],
      [name |-> "if_else_chains",
       pattern |->
          [src |-> "if\\s*\\([^)]+\\)\\s*\\{[^}]*\\}\\s*else\\s*if",
           groups |-> 0,
           node |->
              Cat(<<Lit(<<"i", "f">>), Star(Space), Lit(<<"(">>), Rep(1,
              MAXREPEAT, TRUE, In(TRUE, {")"}, {})), Lit(<<")">>),
              Star(Space), Lit(<<"{">>), Rep(0, MAXREPEAT, TRUE, In(TRUE,
              {"}"}, {})), Lit(<<"}">>), Star(Space), Lit(<<"e", "l", "s",
              "e">>), Star(Space), Lit(<<"i", "f">>)>>)]]>>

-----------------------------------------------------------------------------
(* The extractors.                                                         *)

\* dict.get(key, default)
Get(d, key, default) == IF key \in DOMAIN d THEN d[key] ELSE default

\* the table with the keyword rule under example
strategy_regex_patterns_keyword_example ==
    [ensemble |-> BoldPattern, example |-> KeywordPattern,
     smell |-> BoldPattern, default |-> KeywordPattern]

\* self.strategy_regex_patterns of vio_compare_t2.py
strategy_regex_patterns_t2 ==
    [ensemble |-> BoldPattern, example |-> BoldPattern,
     smell |-> BoldPattern, default |-> KeywordPattern]

\* self.strategy_regex_patterns of reprocess_dip/violation_comparison.py
strategy_regex_patterns_dip ==
    [ensemble |-> EnsemblePattern, example |-> BoldPattern,
     smell |-> BoldPattern, default |-> KeywordPattern]

\* the matches in the letter case of the text
AsWritten(matches) == [i \in DOMAIN matches |-> Str(matches[i])]

\* match.upper() of every match
UpperAll(matches) == [i \in DOMAIN matches |-> Str(Upper(matches[i]))]

\* vio_compare_t2.py: every validated match is appended, duplicates included
extract_violations_by_strategy_t2(text, strat) ==
    LET pattern == Get(strategy_regex_patterns_t2, strat,
                       strategy_regex_patterns_t2["default"])
        matches == re_findall(pattern, text)
    IN SelectSeq(UpperAll(matches), LAMBDA v : v \in Vocabulary)

\* reprocess_dip: the set unique_violations; list(unique_violations) is one
\* of its orderings
extract_violations_by_strategy_dip(text, strat) ==
    LET pattern == Get(strategy_regex_patterns_dip, strat,
                       strategy_regex_patterns_dip["default"])
        matches == re_findall(pattern, text)
    IN {v \in Range(UpperAll(matches)) : v \in Vocabulary}

\* the lists a Python set can be turned into
Orderings(S) == {s \in [1..Cardinality(S) -> S] : Range(s) = S}

\* the f-string folder_source of a side-channel case
folder_source(output_item, strat) ==
    Str(Lower(Get(output_item, "violation_type",
                  <<"u","n","k","n","o","w","n">>)))
      \o "--" \o Get(output_item, "model", "unknown") \o "--" \o strat

\* case_fields with the input snippet left out of the case
case_fields_without_input(text, strat, output_item, patterns) ==
    [id |-> Get(output_item, "id", None),
     model |-> Get(output_item, "model", "UNKNOWN"),
     strategy |-> strat,
     language |-> Get(output_item, "language", "UNKNOWN"),
     expected_violation |-> Str(Upper(Get(output_item, "violation_type", <<>>))),
     pattern_used |-> Get(patterns, strat, None),
     raw_response |-> Str(text),
     input_code |-> "",
     folder_source |-> folder_source(output_item, strat)]

\* the fields the NO_MATCH and the multiple-violations case share
case_fields(text, strat, output_item, patterns) ==
    [id |-> Get(output_item, "id", None),
     model |-> Get(output_item, "model", "UNKNOWN"),
     strategy |-> strat,
     language |-> Get(output_item, "language", "UNKNOWN"),
     expected_violation |-> Str(Upper(Get(output_item, "violation_type", <<>>))),
     pattern_used |-> Get(patterns, strat, None),
     raw_response |-> Str(text),
     input_code |-> Str(Get(output_item, "input", <<>>)),
     folder_source |-> folder_source(output_item, strat)]

\* record r with field k set to v (a dict literal with one more key)
With(r, k, v) == [x \in DOMAIN r \cup {k} |-> IF x = k THEN v ELSE r[x]]

\* A method is an operator whose first argument self holds the accumulators
\* of the comparator: failed is self.failed_extraction_cases, multiple is
\* self.multiple_violations_cases and patterns is self.extracted_patterns.
\* Its value holds what the call returns, ret, and the accumulators after it.

\* extract_violation_type of the embedded-label comparators, given the list
\* violations_found that extract_violations_by_strategy returned
\* extract_violation_type returning the first of several labels
extract_violation_type_first_of_many(self, violations_found, text, strat, output_item, patterns, multiple_reason) ==
    LET fields == case_fields(text, strat, output_item, patterns)
        same == [ret |-> None,
                 failed |-> self.failed,
                 multiple |-> self.multiple,
                 patterns |-> self.patterns]
    IN IF violations_found = <<>>
       THEN [same EXCEPT !.failed =
                Append(self.failed, With(fields, "reason", "NO_MATCH"))]
       ELSE IF Len(violations_found) > 1
       THEN [same EXCEPT !.ret = violations_found[1],
                         !.multiple =
                Append(self.multiple,
                       With(With(fields, "reason", multiple_reason),
                            "all_violations_found", violations_found))]
       ELSE [same EXCEPT !.ret = violations_found[1],
                         !.patterns.violations.detected =
                             Append(@, violations_found[1])]

extract_violation_type_embedded(self, violations_found, text, strat, output_item, patterns, multiple_reason) ==
    LET fields == case_fields(text, strat, output_item, patterns)
        same == [ret |-> None,
                 failed |-> self.failed,
                 multiple |-> self.multiple,
                 patterns |-> self.patterns]
    IN IF violations_found = <<>>
       THEN [same EXCEPT !.failed =
                Append(self.failed, With(fields, "reason", "NO_MATCH"))]
       ELSE IF Len(violations_found) > 1
       THEN [same EXCEPT !.multiple =
                Append(self.multiple,
                       With(With(fields, "reason", multiple_reason),
                            "all_violations_found", violations_found))]
       ELSE [same EXCEPT !.ret = violations_found[1],
                         !.patterns.violations.detected =
                             Append(@, violations_found[1])]

\* vio_compare_t2.py
extract_violation_type_t2(self, violations_found, text, strat, output_item) ==
    extract_violation_type_embedded(self, violations_found, text, strat, output_item,
        strategy_regex_patterns_t2, "MULTIPLE_VIOLATIONS")

\* reprocess_dip/violation_comparison.py
extract_violation_type_dip(self, violations_found, text, strat, output_item) ==
    extract_violation_type_embedded(self, violations_found, text, strat, output_item,
        strategy_regex_patterns_dip, "MULTIPLE_UNIQUE_VIOLATIONS")

\* text[:100]
Prefix100(text) == SubSeq(text, 1, IF Len(text) < 100 THEN Len(text) ELSE 100)

\* analytic_reports_trials: the first bold three-letter word, else **NONE**,
\* else None; no validation against the vocabulary and no side channel
extract_violation_type_trials(self, text) ==
    LET match == re_search(ViolationExtractionPattern, text)
        same == [ret |-> None,
                 failed |-> self.failed,
                 multiple |-> self.multiple,
                 patterns |-> self.patterns]
    IN IF match # NoGroup
       THEN [same EXCEPT !.ret = Str(Upper(match)),
                         !.patterns.violations.detected = Append(@, Str(Upper(match)))]
       ELSE IF re_search(NoneResponsePattern, text) # NoGroup
       THEN [same EXCEPT !.ret = "NONE",
                         !.patterns.violations.none_detected =
                             Append(@, Str(Prefix100(text)))]
       ELSE same

-----------------------------------------------------------------------------
(* The code snippets the input fields of the records hold.                 *)

SnA    == <<"a","b","c","d","e","f","g","h","i","j">>
SnA9   == <<"a","b","c","d","e","f","g","h","i","X">>
SnAp   == <<"a","b","c","d","e","f","g","h","i","j","k">>
SnB    == <<"a","b","c","d","e","f","g","h","i","j","k","l">>
SnBx   == <<"a","b","c","d","e","f","g","h","i","j","k","X">>
SnW1   == <<"a"," "," ","b">>
SnW2   == <<"a"," ","b">>
SnPad  == <<" ","a","b","c","d","e","f","g","h","i","j","\n">>
SnZ    == <<"z","z">>

Snippets == {SnA, SnA9, SnAp, SnB, SnBx, SnW1, SnW2, SnPad, SnZ}

-----
(* The matcher: str.strip, re.sub(r'\s+', ' ', s) and difflib's            *)
(* SequenceMatcher(None, a, b).ratio() as find_ground_truth_by_input calls *)
(* them.                                                                   *)

\* str.strip(): leading and trailing white space removed
RECURSIVE LStrip(_)
LStrip(s) == IF s # <<>> /\ IsSpace(s[1]) THEN LStrip(Tail(s)) ELSE s
RECURSIVE RStrip(_)
RStrip(s) ==
    IF s # <<>> /\ IsSpace(s[Len(s)]) THEN RStrip(SubSeq(s, 1, Len(s) - 1)) ELSE s
Strip(s) == RStrip(LStrip(s))

\* re.sub(r'\s+', ' ', s): every run of white space becomes one space
RECURSIVE CollapseSpaces(_)
CollapseSpaces(s) ==
    IF s = <<>> THEN <<>>
    ELSE IF IsSpace(s[1])
         THEN <<" ">> \o CollapseSpaces(LStrip(s))
         ELSE <<s[1]>> \o CollapseSpaces(Tail(s))

\* the length of the common run of a from i and b from j, inside a[..ahi], b[..bhi]
RECURSIVE RunLen(_, _, _, _, _, _)
RunLen(a, b, i, j, ahi, bhi) ==
    IF i <= ahi /\ j <= bhi /\ a[i] = b[j]
    THEN 1 + RunLen(a, b, i + 1, j + 1, ahi, bhi)
    ELSE 0

\* SequenceMatcher.find_longest_match on a[alo..ahi], b[blo..bhi] (no junk:
\* the texts are shorter than the 200 characters autojunk needs): the longest
\* common block, of those the one starting earliest in a, then earliest in b
find_longest_match(a, b, alo, ahi, blo, bhi) ==
    LET size == [p \in (alo..ahi) \X (blo..bhi) |->
                    RunLen(a, b, p[1], p[2], ahi, bhi)]
        best == CHOOSE k \in 0..(ahi - alo + 1) :
                    /\ \A p \in DOMAIN size : size[p] <= k
                    /\ k = 0 \/ \E p \in DOMAIN size : size[p] = k
    IN IF best = 0 THEN [i |-> alo, j |-> blo, k |-> 0]
       ELSE LET bi == CHOOSE i \in alo..ahi :
                        /\ \E j \in blo..bhi : size[<<i, j>>] = best
                        /\ \A i2 \in alo..(i - 1) :
                              \A j \in blo..bhi : size[<<i2, j>>] # best
                bj == CHOOSE j \in blo..bhi :
                        /\ size[<<bi, j>>] = best
                        /\ \A j2 \in blo..(j - 1) : size[<<bi, j2>>] # best
            IN [i |-> bi, j |-> bj, k |-> best]

\* the sum of the sizes of get_matching_blocks(): the longest block, then the
\* blocks to its left and to its right
RECURSIVE matching_total(_, _, _, _, _, _)
matching_total(a, b, alo, ahi, blo, bhi) ==
    IF alo > ahi \/ blo > bhi THEN 0
    ELSE LET m == find_longest_match(a, b, alo, ahi, blo, bhi)
         IN IF m.k = 0 THEN 0
            ELSE m.k + matching_total(a, b, alo, m.i - 1, blo, m.j - 1)
                     + matching_total(a, b, m.i + m.k, ahi, m.j + m.k, bhi)

\* ratio() = 2.0 * matches / (len(a) + len(b)), and 1.0 for two empty
\* strings, kept as an exact fraction
SequenceMatcher_ratio(a, b) ==
    IF Len(a) + Len(b) = 0 THEN [num |-> 1, den |-> 1]
    ELSE [num |-> 2 * matching_total(a, b, 1, Len(a), 1, Len(b)),
          den |-> Len(a) + Len(b)]

\* the threshold 0.9 of the fuzzy rule, as ThresholdNum / ThresholdDen
ThresholdNum == 9
ThresholdDen == 10

\* the threshold test with >= in the place of >
above_threshold_inclusive(r) == r.num * ThresholdDen >= ThresholdNum * r.den

\* similarity > 0.9
above_threshold(r) == r.num * ThresholdDen > ThresholdNum * r.den

\* ratio() is a function of the two strings alone: the ratios of the strings
\* the input fields can hold are computed once and looked up afterwards
InputStrings == Snippets \cup {<<>>}

SnippetRatios ==
    [pair \in InputStrings \X InputStrings |->
        SequenceMatcher_ratio(pair[1], pair[2])]

ratio(a, b) == SnippetRatios[<<a, b>>]

\* the three rules of the loop body
exact_rule(output_input, gt_input) == output_input = gt_input
normalized_rule(output_input, gt_input) ==
    CollapseSpaces(output_input) = CollapseSpaces(gt_input)
fuzzy_rule(output_input, gt_input) == above_threshold(ratio(output_input, gt_input))

\* the loop body: does this pool record match?
gt_matches(output_input, gt_item) ==
    LET gt_input == Strip(Get(gt_item, "input", <<>>))
    IN \/ exact_rule(output_input, gt_input)
       \/ normalized_rule(output_input, gt_input)
       \/ fuzzy_rule(output_input, gt_input)

\* find_ground_truth_by_input: the position in the pool of the record the
\* loop returns, 0 for None
find_ground_truth_by_input(output_item, ground_truth_items) ==
    LET output_input == Strip(Get(output_item, "input", <<>>))
        hits == {n \in DOMAIN ground_truth_items :
                    gt_matches(output_input, ground_truth_items[n])}
    IN IF hits = {} THEN 0
       ELSE CHOOSE n \in hits : \A m \in hits : n <= m

-----------------------------------------------------------------------------
(* Code blocks of a response.                                              *)

\* the backquote of a code fence is written ' : a TLA+ string cannot hold
\* a backquote, and no text of the model holds an apostrophe
Fence == <<"'","'","'">>
FenceEnd == <<"\n","'","'","'">>

\* the position of the first newline-and-fence at or after i, 0 when there is none:
\* where the lazy (.*?) of a code-block pattern stops (re.DOTALL)
FenceEndFrom(t, i) == Leftmost({j \in i..Len(t) : LitAt(t, j, FenceEnd)})

\* the position after the longest run of \w from i
RECURSIVE SkipWord(_, _)
SkipWord(t, i) ==
    IF i <= Len(t) /\ IsWordChar(t[i]) THEN SkipWord(t, i + 1) ELSE i

\* '''<tag>\n(.*?)\n''' at position i, for one of the tags
TaggedBlockAt(t, i, tags) ==
    IF ~LitAt(t, i, Fence) THEN NoMatch
    ELSE LET hit == {g \in tags : LitAt(t, i + 3, g \o <<"\n">>)}
         IN IF hit = {} THEN NoMatch
            ELSE LET g == CHOOSE g \in hit : TRUE
                     start == i + 3 + Len(g) + 1
                     stop == FenceEndFrom(t, start)
                 IN IF stop = 0 THEN NoMatch
                    ELSE Match(SubSeq(t, start, stop - 1), stop + 4)

\* '''(?:\w+)?\n(.*?)\n''' at position i
GenericBlockAt(t, i) ==
    IF ~LitAt(t, i, Fence) THEN NoMatch
    ELSE LET j == SkipWord(t, i + 3)
         IN IF ~LitAt(t, j, <<"\n">>) THEN NoMatch
            ELSE LET stop == FenceEndFrom(t, j + 1)
                 IN IF stop = 0 THEN NoMatch
                    ELSE Match(SubSeq(t, j + 1, stop - 1), stop + 4)

\* the tags of the four <lang>_code_block patterns
code_block_tags ==
    [java |-> {<<"j","a","v","a">>},
     python |-> {<<"p","y","t","h","o","n">>},
     kotlin |-> {<<"k","o","t","l","i","n">>},
     csharp |-> {<<"c","#">>, <<"c","s","h","a","r","p">>}]

\* languages = ['java', 'python', 'kotlin', 'csharp']
languages == <<"java", "python", "kotlin", "csharp">>

\* the code-block pattern of a language at position i
BlockAt(t, i, lang) ==
    IF lang = "generic" THEN GenericBlockAt(t, i)
    ELSE TaggedBlockAt(t, i, code_block_tags[lang])

\* the position of the leftmost block from position i on, 0 when there is none
FirstBlockFrom(t, i, lang) ==
    Leftmost({j \in i..Len(t) : BlockAt(t, j, lang).ok})

RECURSIVE BlocksFrom(_, _, _)
RECURSIVE BlockAndRest(_, _, _)
BlocksFrom(t, i, lang) == BlockAndRest(t, FirstBlockFrom(t, i, lang), lang)

\* the group of the block at position j and those of the blocks after it
BlockAndRest(t, j, lang) ==
    IF j = 0 THEN <<>>
    ELSE <<BlockAt(t, j, lang).group>>
            \o BlocksFrom(t, BlockAt(t, j, lang).next, lang)

\* re.findall(pattern, text, re.DOTALL | re.IGNORECASE) for each of the
\* code-block patterns: the groups, as characters
all_blocks(text) ==
    [lang \in Range(languages) \cup {"generic"} |-> BlocksFrom(text, 1, lang)]

\* a list of groups as the strings findall returns
stored(groups) == [i \in DOMAIN groups |-> Str(groups[i])]

\* extract_code_blocks_by_language: the dict code_blocks it returns, given
\* what the patterns found
code_blocks_from(blocks) ==
    LET found == {l \in Range(languages) : blocks[l] # <<>>}
    IN IF found # {} THEN [l \in found |-> stored(blocks[l])]
       ELSE IF blocks["generic"] # <<>>
            THEN [l \in {"generic"} |-> stored(blocks["generic"])]
            ELSE <<>>

extract_code_blocks_by_language(text) == code_blocks_from(all_blocks(text))

\* ... and self.extracted_patterns['language_patterns'] after it
language_patterns_after(patterns, blocks) ==
    LET found == {l \in Range(languages) : blocks[l] # <<>>}
    IN [l \in DOMAIN patterns \cup found |->
          Get(patterns, l, <<>>) \o stored(blocks[l])]

-----------------------------------------------------------------------------
(* The analyses of a code block.                                           *)

\* the patterns each branch of analyze_language_specific_patterns reads
language_branch(language) ==
    CASE language = "java" ->
           [interfaces |-> <<regex_patterns.java_interface>>, classes |-> <<regex_patterns.java_class>>,
            injection |-> <<regex_patterns.java_constructor_injection>>]
      [] language = "python" ->
           [interfaces |-> <<>>, classes |-> <<regex_patterns.python_class>>,
            injection |-> <<regex_patterns.python_init_injection>>]
      [] language = "kotlin" ->
           [interfaces |-> <<regex_patterns.kotlin_interface>>, classes |-> <<regex_patterns.kotlin_class>>,
            injection |-> <<regex_patterns.kotlin_constructor>>]
      [] language \in {"csharp", "c#"} ->
           [interfaces |-> <<regex_patterns.csharp_interface>>, classes |-> <<regex_patterns.csharp_class>>,
            injection |-> <<regex_patterns.csharp_constructor_injection>>]
      [] OTHER -> [interfaces |-> <<>>, classes |-> <<>>, injection |-> <<>>]

\* the analysis analyze_language_specific_patterns(code, language) makes
language_branch_analysis(code, language) ==
    LET branch == language_branch(language)
        interfaces == IF branch.interfaces = <<>> THEN <<>>
                      ELSE findall(branch.interfaces[1], code, IgnoreCase)
        classes == IF branch.classes = <<>> THEN <<>>
                   ELSE findall(branch.classes[1], code, IgnoreCase)
        has_dependency_injection ==
            /\ branch.injection # <<>>
            /\ search(branch.injection[1], code, IgnoreCase)
    IN [interfaces |-> interfaces,
        classes |-> classes,
        has_dependency_injection |-> has_dependency_injection,
        language_quality_score |->
            (IF interfaces # <<>> THEN 2 ELSE 0)
          + (IF classes # <<>> THEN 1 ELSE 0)
          + (IF has_dependency_injection THEN 3 ELSE 0)]

\* the violation types analyze_violation_specific_patterns has a branch for:
\* vio_compare_t2.py and analytic_reports_trials ...
violation_branches_t2 == {"DIP", "SRP", "ISP", "LSP", "OCP"}
\* ... and reprocess_dip
violation_branches_dip == {"DIP"}

\* self.regex_patterns[f'{type}_patterns'], in the order of its items()
violation_patterns ==
    [DIP |-> dip_patterns, SRP |-> srp_patterns, ISP |-> isp_patterns,
     LSP |-> lsp_patterns, OCP |-> ocp_patterns]

\* the key of extracted_patterns['refactoring_patterns'] a branch extends
refactoring_key ==
    [DIP |-> "dip", SRP |-> "srp", ISP |-> "isp", LSP |-> "lsp", OCP |-> "ocp"]

\* patterns[name]
pattern_named(patterns, name) ==
    patterns[CHOOSE i \in DOMAIN patterns : patterns[i].name = name].pattern

\* the loop over patterns.items(): an entry for every pattern that matched
specific_patterns(patterns, code) ==
    LET entries == [i \in DOMAIN patterns |->
                      [pattern |-> patterns[i].name,
                       matches |-> findall(patterns[i].pattern, code,
                                           IgnoreCaseDotAll)]]
    IN SelectSeq(entries, LAMBDA e : e.matches # <<>>)

RECURSIVE all_matches(_)
all_matches(entries) ==
    IF entries = <<>> THEN <<>>
    ELSE Head(entries).matches \o all_matches(Tail(entries))

\* analysis when both findings grade the refactoring (DIP, OCP)
graded(first, second, specific) ==
    [violation_addressed |-> first /\ second,
     refactoring_quality |-> IF first /\ second THEN "high"
                             ELSE IF first \/ second THEN "medium" ELSE "low",
     specific_patterns |-> specific]

\* analysis when one condition decides (SRP, ISP, LSP)
addressed_if(condition, specific) ==
    [violation_addressed |-> condition,
     refactoring_quality |-> IF condition THEN "medium" ELSE "low",
     specific_patterns |-> specific]

\* bool(re.search(patterns[name], code, re.IGNORECASE))
has_match(patterns, name, code) ==
    search(pattern_named(patterns, name), code, IgnoreCase)

\* len(re.findall(patterns[name], code, re.IGNORECASE | re.DOTALL))
match_count(patterns, name, code) ==
    Len(findall(pattern_named(patterns, name), code, IgnoreCaseDotAll))

\* the assessment that ends each branch, given the entries of its loop
assessment(violation_type, patterns, code, specific) ==
    CASE violation_type = "DIP" ->
           graded(has_match(patterns, "interface_creation", code),
                  has_match(patterns, "dependency_injection", code), specific)
      [] violation_type = "SRP" ->
           addressed_if(match_count(patterns, "class_separation", code) > 1, specific)
      [] violation_type = "ISP" ->
           addressed_if(match_count(patterns, "small_interfaces", code) > 1, specific)
      [] violation_type = "LSP" ->
           addressed_if(has_match(patterns, "override_behavior", code)
                          /\ ~has_match(patterns, "exception_throwing", code),
                        specific)
      [] violation_type = "OCP" ->
           graded(has_match(patterns, "polymorphism_usage", code),
                  has_match(patterns, "interface_implementation", code), specific)

\* a branch of analyze_violation_specific_patterns(code, violation_type)
violation_branch(code, violation_type) ==
    assessment(violation_type, violation_patterns[violation_type], code,
               specific_patterns(violation_patterns[violation_type], code))

\* the code of the blocks the responses carry
JavaCode ==
    <<"i", "n", "t", "e", "r", "f", "a", "c", "e", " ", "I", "\n", "c",
      "l", "a", "s", "s", " ", "A", "{", "p", "u", "b", "l", "i", "c", " ",
      "A", "(", "I", " ", "i", ")", "}">>
PythonCode == <<"c", "l", "a", "s", "s", " ", "B", ":">>
CodeSamples == {JavaCode, PythonCode}

\* the analyses of that code, made once
LanguageAnalyses ==
    [code \in CodeSamples |->
       [l \in Range(languages) \cup {"generic"} |->
          language_branch_analysis(code, l)]]
ViolationAnalyses ==
    [code \in CodeSamples |->
       [v \in violation_branches_t2 |-> violation_branch(code, v)]]

\* analyze_language_specific_patterns(code, language)
analyze_language_specific_patterns(code, language) ==
    LanguageAnalyses[code][language]

\* analyze_violation_specific_patterns(code, violation_type): the analysis it
\* returns, for a comparator that has the given branches ...
analyze_violation_specific_patterns(code, violation_type, branches) ==
    IF violation_type \in branches THEN ViolationAnalyses[code][violation_type]
    ELSE addressed_if(FALSE, <<>>)

\* ... and the matches it appends to extracted_patterns['refactoring_patterns']
refactoring_matches(code, violation_type, branches) ==
    all_matches(analyze_violation_specific_patterns(code, violation_type,
                                                    branches).specific_patterns)

\* the keys of code_blocks in the order of code_blocks.items()
block_languages(blocks) ==
    LET tagged == SelectSeq(languages, LAMBDA l : blocks[l] # <<>>)
    IN IF tagged # <<>> THEN tagged
       ELSE IF blocks["generic"] # <<>> THEN <<"generic">> ELSE <<>>

\* compare_single_output: the languages whose first block is analysed
analysed_languages(blocks, extracted_violation) ==
    IF extracted_violation \in {None, "", "NONE"} THEN <<>>
    ELSE block_languages(blocks)

\* compare_single_output: language_analysis
language_analysis_of(blocks, langs) ==
    IF langs = <<>> THEN <<>>
    ELSE [l \in Range(langs) |->
            analyze_language_specific_patterns(blocks[l][1], l)]

\* compare_single_output: violation_analysis
violation_analysis_of(blocks, langs, extracted_violation, branches) ==
    IF langs = <<>> THEN <<>>
    ELSE [l \in Range(langs) |->
            analyze_violation_specific_patterns(blocks[l][1],
                extracted_violation, branches)]

\* what the loop over code_blocks.items() appends to refactoring_patterns
loop_matches(blocks, langs, extracted_violation, branches) ==
    all_matches([i \in DOMAIN langs |->
                   [matches |-> refactoring_matches(blocks[langs[i]][1],
                                    extracted_violation, branches)]])

\* self.extracted_patterns['refactoring_patterns'] with matches appended
refactoring_patterns_with(patterns, extracted_violation, matches) ==
    IF matches = <<>> THEN patterns
    ELSE With(patterns, refactoring_key[extracted_violation],
              Get(patterns, refactoring_key[extracted_violation], <<>>)
                \o matches)

\* ... and self.extracted_patterns['refactoring_patterns'] after the loop
refactoring_patterns_after(patterns, blocks, langs, extracted_violation, branches) ==
    refactoring_patterns_with(patterns, extracted_violation,
        loop_matches(blocks, langs, extracted_violation, branches))

-----------------------------------------------------------------------------
(* The responses of the records of an output file.                         *)

\* the violation types the records of an output file bear
DataTypes == {"dip", "srp"}
TypeChars == [dip |-> <<"d","i","p">>, srp |-> <<"s","r","p">>]
OtherType == [dip |-> "srp", srp |-> "dip"]

Bold(l) == Stars \o l \o Stars
JavaBlock == Fence \o <<"j", "a", "v", "a", "\n">> \o JavaCode \o FenceEnd
PythonBlock ==
    Fence \o <<"p", "y", "t", "h", "o", "n", "\n">> \o PythonCode \o FenceEnd
FOO == <<"F","O","O">>

\* the responses of the records of group vt
GroupTexts(vt) ==
    LET L == Upper(TypeChars[vt])
        O == Upper(TypeChars[OtherType[vt]])
    IN { <<"x">>, Bold(L), Bold(O), Bold(L) \o Bold(L), Bold(L) \o Bold(O),
         L, Bold(TypeChars[vt]) \o JavaBlock \o PythonBlock, MostImpactful \o <<" ">> \o L }

\* every response a record bears
Responses == UNION {GroupTexts(vt) : vt \in DataTypes} \cup {Bold(FOO), Bold(NONE)}

\* self.prompt_types, and "unknown", which parse_folder_name gives a folder
\* whose name has no strategy part
Strategies == {"default", "ensemble", "example", "smell", "unknown"}

\* what the code-block patterns find in each of them, looked for once
ResponseBlocks == [text \in Responses |-> all_blocks(text)]

\* what the code-block patterns find in text
blocks_found(text) ==
    IF text \in Responses THEN ResponseBlocks[text] ELSE all_blocks(text)

\* the labels extract_violations_by_strategy finds in the responses, made once
ResponseLabels_t2 ==
    [strat \in Strategies |->
        [text \in Responses |-> extract_violations_by_strategy_t2(text, strat)]]
ResponseLabels_dip ==
    [strat \in Strategies |->
        [text \in Responses |-> extract_violations_by_strategy_dip(text, strat)]]

labels_found_t2(text, strat) ==
    IF text \in Responses /\ strat \in Strategies
    THEN ResponseLabels_t2[strat][text]
    ELSE extract_violations_by_strategy_t2(text, strat)

labels_found_dip(text, strat) ==
    IF text \in Responses /\ strat \in Strategies
    THEN ResponseLabels_dip[strat][text]
    ELSE extract_violations_by_strategy_dip(text, strat)

-----------------------------------------------------------------------------
(* compare_single_output.  Each operator gives the result dict and the     *)
(* accumulators after the call.                                            *)

\* compare_single_output of the embedded-label comparators, given the record
\* r that extract_violation_type returned and what the code-block patterns
\* find in the response; branches are the violation types the analysis knows
compare_embedded_blocks(r, output_item, strat, branches, blocks) ==
    LET raw_response == Get(output_item, "raw_response", <<>>)
        expected_violation == Str(Upper(Get(output_item, "violation_type", <<>>)))
        head == [id |-> Get(output_item, "id", None),
                 language |-> Get(output_item, "language", "UNKNOWN"),
                 expected_violation |-> expected_violation,
                 response_length |-> Len(raw_response),
                 model |-> Get(output_item, "model", "UNKNOWN"),
                 strategy |-> strat]
        extracted_violation == r.ret
        violation_match == extracted_violation = expected_violation
        langs == analysed_languages(blocks, extracted_violation)
    IN IF extracted_violation = None
       THEN [r EXCEPT !.ret =
                head @@ [status |-> "FAIL",
                         detected_violation |-> None,
                         failure_reason |-> "EXTRACTION_FAILED",
                         violation_match |-> FALSE,
                         code_blocks |-> <<>>,
                         language_analysis |-> <<>>,
                         violation_analysis |-> <<>>]]
       ELSE [r EXCEPT
               !.ret =
                head @@ [status |-> IF violation_match THEN "PASS" ELSE "FAIL",
                         detected_violation |-> extracted_violation,
                         violation_match |-> violation_match,
                         failure_reason |->
                             IF violation_match THEN None ELSE "WRONG_VIOLATION",
                         code_blocks |-> code_blocks_from(blocks),
                         language_analysis |-> language_analysis_of(blocks, langs),
                         violation_analysis |->
                             violation_analysis_of(blocks, langs,
                                 extracted_violation, branches)],
               !.patterns.language_patterns =
                   language_patterns_after(@, blocks),
               !.patterns.refactoring_patterns =
                   refactoring_patterns_after(@, blocks, langs,
                       extracted_violation, branches)]

\* compare_single_output failing a record whose label an earlier record had
compare_embedded_once_per_label(r, output_item, strat, branches) ==
    compare_embedded_blocks(
        IF r.ret # None /\ Len(r.patterns.violations.detected) > 1
        THEN [r EXCEPT !.ret = None] ELSE r,
        output_item, strat, branches,
        blocks_found(Get(output_item, "raw_response", <<>>)))

\* compare_single_output with a failed extraction classified ERROR
compare_embedded_failed_is_error(r, output_item, strat, branches) ==
    IF r.ret = None
    THEN [r EXCEPT !.ret = [id |-> Get(output_item, "id", None),
                            status |-> "ERROR",
                            error |-> "EXTRACTION_FAILED",
                            language |-> Get(output_item, "language", "UNKNOWN")]]
    ELSE compare_embedded_blocks(r, output_item, strat, branches,
             blocks_found(Get(output_item, "raw_response", <<>>)))

\* compare_single_output passing every record a label was extracted from
compare_embedded_labelled_is_pass(r, output_item, strat, branches) ==
    LET compared == compare_embedded_blocks(r, output_item, strat, branches,
                        blocks_found(Get(output_item, "raw_response", <<>>)))
    IN IF r.ret = None THEN compared
       ELSE [compared EXCEPT !.ret.status = "PASS"]

compare_embedded(r, output_item, strat, branches) ==
    compare_embedded_blocks(r, output_item, strat, branches,
        blocks_found(Get(output_item, "raw_response", <<>>)))

\* vio_compare_t2.py
compare_single_output_t2(self, violations_found, output_item, strat) ==
    compare_embedded(
        extract_violation_type_t2(self, violations_found,
            Get(output_item, "raw_response", <<>>), strat, output_item),
        output_item, strat, violation_branches_t2)

\* reprocess_dip/violation_comparison.py
compare_single_output_dip(self, violations_found, output_item, strat) ==
    compare_embedded(
        extract_violation_type_dip(self, violations_found,
            Get(output_item, "raw_response", <<>>), strat, output_item),
        output_item, strat, violation_branches_dip)

\* the result with a null status
ground_truth_missing_unclassified(output_item) ==
    [id |-> Get(output_item, "id", None),
     status |-> None,
     error |-> "No matching ground truth found",
     language |-> Get(output_item, "language", "UNKNOWN")]

\* the result classified FAIL
ground_truth_missing_as_fail(output_item) ==
    [id |-> Get(output_item, "id", None),
     status |-> "FAIL",
     error |-> "No matching ground truth found",
     language |-> Get(output_item, "language", "UNKNOWN")]

\* the dict compare_single_output returns when find_ground_truth_by_input
\* found no record
ground_truth_missing(output_item) ==
    [id |-> Get(output_item, "id", None),
     status |-> "ERROR",
     error |-> "No matching ground truth found",
     language |-> Get(output_item, "language", "UNKNOWN")]

\* analytic_reports_trials, compare_single_output from the extraction on:
\* gt_item is the record found, r what extract_violation_type returned
compare_trials_blocks(r, output_item, gt_item, blocks) ==
    LET raw_response == Get(output_item, "raw_response", <<>>)
        extracted_violation == r.ret
        gt_violation == Str(Upper(Get(gt_item, "violation", <<>>)))
        violation_match == extracted_violation = gt_violation
        langs == analysed_languages(blocks, extracted_violation)
    IN [r EXCEPT
         !.ret =
            [id |-> Get(output_item, "id", None),
             status |-> IF violation_match THEN "PASS" ELSE "FAIL",
             language |-> Get(output_item, "language", "UNKNOWN"),
             expected_violation |-> gt_violation,
             detected_violation |-> extracted_violation,
             violation_match |-> violation_match,
             code_blocks |-> code_blocks_from(blocks),
             language_analysis |-> language_analysis_of(blocks, langs),
             violation_analysis |->
                 violation_analysis_of(blocks, langs, extracted_violation,
                                       violation_branches_t2),
             response_length |-> Len(raw_response),
             ground_truth_level |-> Get(gt_item, "level", "UNKNOWN"),
             similarity_to_gt |-> ratio(Get(output_item, "input", <<>>),
                                        Get(gt_item, "input", <<>>))],
         !.patterns.language_patterns = language_patterns_after(@, blocks),
         !.patterns.refactoring_patterns =
             refactoring_patterns_after(@, blocks, langs, extracted_violation,
                                        violation_branches_t2)]

\* compare_single_output extracting the label before the lookup
compare_trials_extract_first(self, output_item, ground_truth_items, n) ==
    LET r == extract_violation_type_trials(self, Get(output_item, "raw_response", <<>>))
    IN IF n = 0 \/ DOMAIN ground_truth_items[n] = {}
       THEN [r EXCEPT !.ret = ground_truth_missing(output_item)]
       ELSE compare_trials_blocks(r, output_item, ground_truth_items[n],
                blocks_found(Get(output_item, "raw_response", <<>>)))

\* ... and from the lookup on: n is what find_ground_truth_by_input returned
compare_trials_found(self, output_item, ground_truth_items, n) ==
    IF n = 0 \/ DOMAIN ground_truth_items[n] = {}
    THEN [ret |-> ground_truth_missing(output_item),
          failed |-> self.failed,
          multiple |-> self.multiple,
          patterns |-> self.patterns]
    ELSE compare_trials_blocks(
             extract_violation_type_trials(self, Get(output_item, "raw_response", <<>>)),
             output_item, ground_truth_items[n],
             blocks_found(Get(output_item, "raw_response", <<>>)))

\* analytic_reports_trials: the ground truth is looked up in the pool first
compare_single_output_trials(self, output_item, ground_truth_items) ==
    compare_trials_found(self, output_item, ground_truth_items,
        find_ground_truth_by_input(output_item, ground_truth_items))

\* the counters of results['overall_stats'] after one more result
overall_stats_after(stats, result) ==
    LET lang == Get(result, "language", "UNKNOWN")
        counted == [stats EXCEPT
                      !.languages = [l \in DOMAIN @ \cup {lang} |->
                                       IF l \in DOMAIN @ THEN @[l] ELSE 0]]
    IN [counted EXCEPT
          !.total_pass = IF result.status = "PASS" THEN @ + 1 ELSE @,
          !.total_fail = IF result.status = "FAIL" THEN @ + 1 ELSE @,
          !.total_error = IF result.status \notin {"PASS", "FAIL"} THEN @ + 1 ELSE @,
          !.languages[lang] = @ + 1]

\* sum(1 for r in violation_results if r['status'] == st)
RECURSIVE count_status(_, _)
count_status(items, st) ==
    IF items = <<>> THEN 0
    ELSE (IF items[1].status = st THEN 1 ELSE 0) + count_status(Tail(items), st)

\* the entry with the ERROR results left out of the denominator of accuracy
violation_type_entry_errors_excluded(items) ==
    [items |-> items,
     stats |-> [total |-> Len(items),
                pass |-> count_status(items, "PASS"),
                fail |-> count_status(items, "FAIL"),
                error |-> count_status(items, "ERROR"),
                accuracy |-> IF count_status(items, "PASS")
                                  + count_status(items, "FAIL") > 0
                             THEN [num |-> count_status(items, "PASS"),
                                   den |-> count_status(items, "PASS")
                                             + count_status(items, "FAIL")]
                             ELSE [num |-> 0, den |-> 1]]]

\* results['violation_results'][violation_type] of process_violation_type
violation_type_entry(items) ==
    [items |-> items,
     stats |-> [total |-> Len(items),
                pass |-> count_status(items, "PASS"),
                fail |-> count_status(items, "FAIL"),
                error |-> count_status(items, "ERROR"),
                accuracy |-> IF items # <<>>
                             THEN [num |-> count_status(items, "PASS"),
                                   den |-> Len(items)]
                             ELSE [num |-> 0, den |-> 1]]]

-----------------------------------------------------------------------------
(* Inputs.                                                                 *)

\* the pieces response texts are built from
Tokens ==
    { <<"*","*","S","R","P","*","*">>,
      <<"*","*","s","r","p","*","*">>,
      <<"*","*","O","C","P","*","*">>,
      <<"*","*","F","O","O","*","*">>,
      SRP, NONE, Stars, <<" ">>, <<"x">>, <<"S","R","P"," ","*","*">>,
      MostImpactful }

RECURSIVE Concat(_)
Concat(ss) == IF ss = <<>> THEN <<>> ELSE ss[1] \o Concat(Tail(ss))

\* every text of at most MaxTokens tokens
Texts == UNION {{Concat(ts) : ts \in [1..n -> Tokens]} : n \in 0..MaxTokens}

Impls == {"t2", "dip", "trials"}

\* __init__: the accumulators of a new comparator
fresh_extracted_patterns ==
    [violations |-> [detected |-> <<>>, none_detected |-> <<>>],
     code_structures |-> <<>>,
     language_patterns |-> <<>>,
     refactoring_patterns |-> <<>>]

\* the comparator the run works with
comparator ==
    [failed |-> failed_extraction_cases,
     multiple |-> multiple_violations_cases,
     patterns |-> extracted_patterns]

\* a comparator as __init__ leaves it
fresh_comparator ==
    [failed |-> <<>>, multiple |-> <<>>, patterns |-> fresh_extracted_patterns]

InitComparator ==
    /\ failed_extraction_cases = <<>>
    /\ multiple_violations_cases = <<>>
    /\ extracted_patterns = fresh_extracted_patterns

InitIdleDriver ==
    /\ gt_data = <<>>
    /\ cur_vt = ""
    /\ violation_results = <<>>
    /\ results = <<>>
    /\ loaded = 0
    /\ cur_item = <<>>

InitIdleMatcher ==
    /\ fm_input = <<>>
    /\ fm_result = 0

InitIdleRun ==
    /\ model_folders = <<>>
    /\ output_files = <<>>
    /\ all_results = <<>>
    /\ written = <<>>

-----------------------------------------------------------------------------
(* SpecExtract: one extract_violation_type call on a new comparator, for   *)
(* every text, strategy and comparator.                                    *)

\* the record the extractor is called for
ExtractItem ==
    [id |-> 1, model |-> "m", language |-> "JAVA",
     violation_type |-> <<"s","r","p">>, input |-> <<"a","b">>]

InitExtract ==
    /\ impl \in Impls
    /\ strategy \in (IF impl = "trials" THEN {"default"} ELSE Strategies)
    /\ ex_text \in Texts
    /\ ex_found = <<>>
    /\ ex_ret = None
    /\ pc = "call"
    /\ InitComparator
    /\ InitIdleDriver
    /\ InitIdleMatcher
    /\ InitIdleRun

Returned(r) ==
    /\ ex_ret' = r.ret
    /\ failed_extraction_cases' = r.failed
    /\ multiple_violations_cases' = r.multiple
    /\ extracted_patterns' = r.patterns
    /\ pc' = "returned"

ExtractT2 ==
    /\ pc = "call" /\ impl = "t2"
    /\ ex_found' = extract_violations_by_strategy_t2(ex_text, strategy)
    /\ Returned(extract_violation_type_t2(comparator, ex_found', ex_text, strategy, ExtractItem))
    /\ UNCHANGED <<run_vars, impl, strategy, gt_data, cur_vt, violation_results, results,
                   loaded, ex_text, fm_input, fm_result, cur_item>>

ExtractDip ==
    /\ pc = "call" /\ impl = "dip"
    /\ ex_found' \in Orderings(extract_violations_by_strategy_dip(ex_text, strategy))
    /\ Returned(extract_violation_type_dip(comparator, ex_found', ex_text, strategy, ExtractItem))
    /\ UNCHANGED <<run_vars, impl, strategy, gt_data, cur_vt, violation_results, results,
                   loaded, ex_text, fm_input, fm_result, cur_item>>

ExtractTrials ==
    /\ pc = "call" /\ impl = "trials"
    /\ LET r == extract_violation_type_trials(comparator, ex_text)
       IN /\ Returned(r)
          /\ ex_found' = IF r.ret = None THEN <<>> ELSE <<r.ret>>
    /\ UNCHANGED <<run_vars, impl, strategy, gt_data, cur_vt, violation_results, results,
                   loaded, ex_text, fm_input, fm_result, cur_item>>

NextExtract == ExtractT2 \/ ExtractDip \/ ExtractTrials

SpecExtract == InitExtract /\ [][NextExtract]_vars

-----------------------------------------------------------------------------
(* SpecMatch: one find_ground_truth_by_input call, for every output        *)
(* snippet and every pool of at most MaxPool records.                      *)

\* a ground-truth example
GroundTruth(input, violation) ==
    [input |-> input, violation |-> violation, level |-> "EASY", language |-> "JAVA"]

MatchPools ==
    UNION {[1..n -> {GroundTruth(sn, SRP) : sn \in Snippets}] : n \in 0..MaxPool}

InitMatch ==
    /\ impl = "trials"
    /\ strategy = "default"
    /\ fm_input \in Snippets
    /\ gt_data \in MatchPools
    /\ fm_result = 0
    /\ pc = "call"
    /\ InitComparator
    /\ cur_vt = "" /\ violation_results = <<>> /\ results = <<>> /\ loaded = 0
    /\ cur_item = <<>>
    /\ ex_text = <<>> /\ ex_found = <<>> /\ ex_ret = None
    /\ InitIdleRun

FindGroundTruth ==
    /\ pc = "call"
    /\ fm_result' = find_ground_truth_by_input([input |-> fm_input], gt_data)
    /\ pc' = "returned"
    /\ UNCHANGED <<run_vars, impl, strategy, failed_extraction_cases,
                   multiple_violations_cases, extracted_patterns, gt_data,
                   cur_vt, violation_results, results, loaded,
                   ex_text, ex_found, ex_ret, fm_input, cur_item>>

NextMatch == FindGroundTruth

SpecMatch == InitMatch /\ [][NextMatch]_vars

-----------------------------------------------------------------------------
(* Spec: one compare_model_outputs run of a comparator over an output file *)
(* of at most MaxItems records.  The records of the file are read as the   *)
(* run reaches them.                                                       *)

\* self.violation_types
violation_types_t2 == <<"dip", "isp", "lsp", "ocp", "srp">>
violation_types_dip == <<"dip">>
violation_types_trials == <<"dip", "isp", "lsp", "ocp", "srp">>
violation_types ==
    [t2 |-> violation_types_t2, dip |-> violation_types_dip,
     trials |-> violation_types_trials]

\* the records of group vt an output file can hold as its record number id
OutputItems(vt, id) ==
    LET L == Upper(TypeChars[vt])
        O == Upper(TypeChars[OtherType[vt]])
        item(t, sn) == [id |-> id, model |-> "m", language |-> "JAVA",
                        violation_type |-> L, raw_response |-> t, input |-> sn]
    IN IF impl = "trials"
       THEN { item(<<"x">>, SnA), item(Bold(L), SnA), item(Bold(L), SnA9),
              item(Bold(L) \o Bold(O), SnA), item(Bold(FOO), SnAp),
              item(Bold(NONE), SnA),
              item(Bold(TypeChars[vt]) \o JavaBlock \o PythonBlock, SnZ) }
       ELSE {item(t, SnA) : t \in GroupTexts(vt)}
            \cup {[id |-> id, model |-> "m", violation_type |-> TypeChars[vt],
                   raw_response |-> Bold(L), input |-> SnW1]}

\* the ground-truth pools of violation type vt
PipelinePools(vt) ==
    LET L == Upper(TypeChars[vt])
        O == Upper(TypeChars[OtherType[vt]])
    IN { <<>>, <<GroundTruth(SnA, L)>>,
         <<GroundTruth(SnAp, O), GroundTruth(SnPad, TypeChars[vt])>> }

RunStrategies == IF impl = "trials" THEN {"default"} ELSE {"default", "ensemble"}

Init ==
    /\ impl \in Impls
    /\ strategy = "default"
    /\ pc = "idle"
    /\ InitComparator
    /\ InitIdleDriver
    /\ InitIdleMatcher
    /\ InitIdleRun
    /\ ex_text = <<>> /\ ex_found = <<>> /\ ex_ret = None

\* the results dict compare_model_outputs builds before it compares
fresh_results ==
    [total_items |-> 0,
     violation_results |-> <<>>,
     overall_stats |-> [total_pass |-> 0, total_fail |-> 0, total_error |-> 0,
                        languages |-> <<>>]]

\* compare_model_outputs is called for a folder, with the strategy of the folder
compare_model_outputs_begin ==
    /\ pc = "idle"
    /\ strategy' \in RunStrategies
    /\ results' = fresh_results
    /\ pc' = "groups"
    /\ UNCHANGED <<run_vars, impl, failed_extraction_cases, multiple_violations_cases,
                   extracted_patterns, gt_data, cur_vt, violation_results,
                   loaded, ex_text, ex_found, ex_ret, fm_input, fm_result, cur_item>>

\* Position(seq, x): where x stands in seq, 0 when it does not
Position(seq, x) ==
    IF x \in Range(seq) THEN CHOOSE n \in DOMAIN seq : seq[n] = x ELSE 0

\* a record of a violation type the run does not process is read: it is
\* counted in total_items (reprocess_dip counts the dip records only) and
\* never compared
load_unprocessed_record ==
    /\ pc = "groups"
    /\ loaded < MaxItems
    /\ loaded' = loaded + 1
    /\ results' = [results EXCEPT !.total_items = IF impl = "dip" THEN @ ELSE @ + 1]
    /\ UNCHANGED <<run_vars, impl, strategy, failed_extraction_cases,
                   multiple_violations_cases, extracted_patterns, gt_data, pc,
                   cur_vt, violation_results, ex_text, ex_found, ex_ret,
                   fm_input, fm_result, cur_item>>

\* process_violation_type starts on the group of violation type vt; the
\* trials comparator takes the groups in the order of self.violation_types
\* and hands each the pool of its type
process_violation_type_begin ==
    /\ pc = "groups"
    /\ loaded < MaxItems
    /\ \E vt \in DataTypes :
          /\ vt \in Range(violation_types[impl])
          /\ vt \notin DOMAIN results.violation_results
          /\ impl = "trials" =>
                \A done \in DOMAIN results.violation_results :
                    Position(violation_types_trials, done)
                        < Position(violation_types_trials, vt)
          /\ cur_vt' = vt
          /\ gt_data' \in (IF impl = "trials" THEN PipelinePools(vt) ELSE {<<>>})
    /\ violation_results' = <<>>
    /\ pc' = "items"
    /\ UNCHANGED <<run_vars, impl, strategy, failed_extraction_cases,
                   multiple_violations_cases, extracted_patterns, results, loaded,
                   ex_text, ex_found, ex_ret, fm_input, fm_result, cur_item>>

\* the loop body of process_violation_type after compare_single_output
\* returned r for the record item: the result is appended and counted
Compared(item, r) ==
    /\ cur_item' = item
    /\ violation_results' = Append(violation_results, r.ret)
    /\ results' = [results EXCEPT
                     !.overall_stats = overall_stats_after(@, r.ret),
                     !.total_items = @ + 1]
    /\ failed_extraction_cases' = r.failed
    /\ multiple_violations_cases' = r.multiple
    /\ extracted_patterns' = r.patterns
    /\ loaded' = loaded + 1
    /\ UNCHANGED <<run_vars, impl, strategy, gt_data, pc, cur_vt,
                   ex_text, ex_found, ex_ret, fm_input, fm_result>>

compare_next_t2 ==
    /\ pc = "items" /\ impl = "t2" /\ loaded < MaxItems
    /\ \E item \in OutputItems(cur_vt, loaded + 1) :
          Compared(item, compare_single_output_t2(comparator,
              labels_found_t2(item.raw_response, strategy),
              item, strategy))

compare_next_dip ==
    /\ pc = "items" /\ impl = "dip" /\ loaded < MaxItems
    /\ \E item \in OutputItems(cur_vt, loaded + 1) :
          \E found \in Orderings(
                 labels_found_dip(item.raw_response, strategy)) :
             Compared(item, compare_single_output_dip(comparator, found, item, strategy))

compare_next_trials ==
    /\ pc = "items" /\ impl = "trials" /\ loaded < MaxItems
    /\ \E item \in OutputItems(cur_vt, loaded + 1) :
          Compared(item, compare_single_output_trials(comparator, item, gt_data))

\* the end of process_violation_type: the stats of the group are stored
process_violation_type_end ==
    /\ pc = "items"
    /\ violation_results # <<>>
    /\ results' = [results EXCEPT
                     !.violation_results =
                         With(@, cur_vt, violation_type_entry(violation_results))]
    /\ pc' = "groups"
    /\ UNCHANGED <<run_vars, impl, strategy, failed_extraction_cases,
                   multiple_violations_cases, extracted_patterns, gt_data,
                   cur_vt, violation_results, loaded,
                   ex_text, ex_found, ex_ret, fm_input, fm_result, cur_item>>

\* compare_model_outputs returns results
compare_model_outputs_return ==
    /\ pc = "groups"
    /\ loaded >= 1
    /\ pc' = "done"
    /\ UNCHANGED <<run_vars, impl, strategy, failed_extraction_cases,
                   multiple_violations_cases, extracted_patterns, gt_data,
                   cur_vt, violation_results, results, loaded,
                   ex_text, ex_found, ex_ret, fm_input, fm_result, cur_item>>

Next ==
    \/ compare_model_outputs_begin
    \/ load_unprocessed_record
    \/ process_violation_type_begin
    \/ compare_next_t2
    \/ compare_next_dip
    \/ compare_next_trials
    \/ process_violation_type_end
    \/ compare_model_outputs_return

Spec == Init /\ [][Next]_vars

-----------------------------------------------------------------------------
(* SpecRun: one run_full_comparison call of an embedded-label comparator   *)
(* over a directory of model folders, and the save_* calls on it.  The     *)
(* output file of a folder is read when the run reaches it.                *)

\* JSON null, read where the code expects a str
Null == <<None>>

\* folder names
DipMDefault ==
    <<"d","i","p","-","-","m","-","-","d","e","f","a","u","l","t">>
DipNV2Ensemble ==
    <<"d","i","p","-","-","n","-","-","v","2","-","-",
      "e","n","s","e","m","b","l","e">>
DipM == <<"d","i","p","-","-","m">>
SrpMSmell == <<"s","r","p","-","-","m","-","-","s","m","e","l","l">>
Dipper == <<"d","i","p","p","e","r","-","-","m","-","-","d","e","f","a","u","l","t">>

\* what iterdir() can list in output_base_dir
Listings ==
    { <<>>, <<Dipper>>, <<DipMDefault>>, <<DipM, DipNV2Ensemble>>,
      <<SrpMSmell, Dipper, DipMDefault>>, <<DipNV2Ensemble, SrpMSmell>> }

\* the lines of an output file: json is what json.loads makes of the line,
\* a line without json is not JSON
JsonLine(value) == [text |-> "{...}", json |-> value]
BadLine == [text |-> "{bad"]
BlankLine == [text |-> ""]

RunRecord(id, response) ==
    [id |-> id, model |-> "m", language |-> "JAVA", violation_type |-> DIP,
     raw_response |-> response, input |-> SnA]

\* what line number id of an output file can be, besides GoodLine(id)
SpecialLines(id) ==
    { BadLine, BlankLine,
      JsonLine(RunRecord(id, <<"x">>)),
      JsonLine(RunRecord(id, Bold(DIP) \o Bold(SRP))),
      JsonLine(RunRecord(id, Bold(Lower(DIP)) \o JavaBlock \o PythonBlock)),
      JsonLine([id |-> id, model |-> "m", raw_response |-> Bold(DIP), input |-> SnA]),
      JsonLine(RunRecord(id, Null)),
      JsonLine([RunRecord(id, Bold(DIP)) EXCEPT !.violation_type = Null]),
      JsonLine([RunRecord(id, Bold(SRP)) EXCEPT !.violation_type = SRP]) }

GoodLine(id) == JsonLine(RunRecord(id, Bold(DIP)))

\* the output_test.jsonl of a folder: no file, or a file of at most MaxLines
\* lines of which at most one is not a good record
Missing == [exists |-> FALSE]
File(lines) == [exists |-> TRUE, lines |-> lines]

OutputFiles ==
    {Missing} \cup
    UNION {
      {File([i \in 1..n |-> GoodLine(i)])} \cup
      {File([i \in 1..n |-> IF i = kl[1] THEN kl[2] ELSE GoodLine(i)]) :
           kl \in UNION {{<<k, l>> : l \in SpecialLines(k)} : k \in 1..n}}
      : n \in 0..MaxLines }

startswith(s, prefix) ==
    Len(s) >= Len(prefix) /\ SubSeq(s, 1, Len(prefix)) = prefix

\* str.split('--')
RECURSIVE split_dashes(_)
split_dashes(s) ==
    LET at == Leftmost({i \in 1..(Len(s) - 1) : s[i] = "-" /\ s[i + 1] = "-"})
    IN IF at = 0
       THEN <<s>>
       ELSE <<SubSeq(s, 1, at - 1)>> \o split_dashes(SubSeq(s, at + 2, Len(s)))

\* '--'.join(parts)
RECURSIVE join_dashes(_)
join_dashes(parts) ==
    IF parts = <<>> THEN <<>>
    ELSE IF Len(parts) = 1 THEN parts[1]
    ELSE parts[1] \o <<"-","-">> \o join_dashes(Tail(parts))

parse_folder_name(folder_name) ==
    LET parts == split_dashes(folder_name)
    IN IF Len(parts) >= 3
       THEN [violation_type |-> Str(parts[1]),
             model |-> Str(join_dashes(SubSeq(parts, 2, Len(parts) - 1))),
             strategy |-> Str(parts[Len(parts)])]
       ELSE [violation_type |-> "unknown", model |-> Str(folder_name),
             strategy |-> "unknown"]

\* load_jsonl_file: the records of the lines that are not blank; one line
\* that is not JSON and the except clause returns [] for the whole file
load_jsonl_file(file) ==
    LET lines == SelectSeq(file.lines, LAMBDA line : line.text # "")
    IN IF \E i \in DOMAIN lines : "json" \notin DOMAIN lines[i]
       THEN <<>>
       ELSE [i \in DOMAIN lines |-> lines[i].json]

\* the characters of the names in self.violation_types
type_chars ==
    [dip |-> Lower(DIP), isp |-> Lower(ISP), lsp |-> Lower(LSP),
     ocp |-> Lower(OCP), srp |-> Lower(SRP)]

\* the keys of a defaultdict(list) filled in the order of keys
key_order(keys) ==
    LET first(i) == \A j \in 1..(i - 1) : keys[j] # keys[i]
        firsts == SelectSeq([i \in DOMAIN keys |-> i], first)
    IN [k \in DOMAIN firsts |-> keys[firsts[k]]]

\* the list the defaultdict holds under key
grouped(s, keys, key) ==
    LET has_key(i) == keys[i] = key
        at == SelectSeq([i \in DOMAIN s |-> i], has_key)
    IN [k \in DOMAIN at |-> s[at[k]]]

RECURSIVE extend_all(_)
extend_all(lists) ==
    IF lists = <<>> THEN <<>> ELSE Head(lists) \o extend_all(Tail(lists))

\* the violation type whose prefix the folder name starts with, "" when none
folder_violation_type(folder) ==
    LET types == {vt \in Range(violation_types[impl]) :
                     startswith(folder, type_chars[vt] \o <<"-", "-">>)}
    IN IF types = {} THEN "" ELSE CHOOSE vt \in types : TRUE

\* model_folders of run_full_comparison: the folders of a violation type of
\* the comparator, type by type in the order the types were first seen
discovered_folders(all_folders) ==
    LET is_violation_folder(folder) == folder_violation_type(folder) # ""
        found == SelectSeq(all_folders, is_violation_folder)
        keys == [i \in DOMAIN found |-> folder_violation_type(found[i])]
        order == key_order(keys)
    IN extend_all([k \in DOMAIN order |-> grouped(found, keys, order[k])])

\* an empty results dict in place of the error entry
output_file_error_as_empty_results(model_folder, prompt_type, error) ==
    [model |-> model_folder, prompt_type |-> prompt_type, total_items |-> 0,
     violation_results |-> <<>>, overall_stats |-> fresh_results.overall_stats]

\* the two early returns of compare_model_outputs
output_file_error(model_folder, prompt_type, error) ==
    [model |-> model_folder, prompt_type |-> prompt_type,
     status |-> "ERROR", error |-> error]

\* the accumulators a call leaves
self_after(r) == [failed |-> r.failed, multiple |-> r.multiple, patterns |-> r.patterns]

\* list(set(...)): the labels of found in the order set_order iterates them
list_of(found, set_order) ==
    LET is_found(l) == l \in found IN SelectSeq(set_order, is_found)

\* compare_single_output of the comparator that runs
compare_single_output(self, output_item, strat, set_order) ==
    IF impl = "t2"
    THEN compare_single_output_t2(self,
             labels_found_t2(output_item.raw_response, strat),
             output_item, strat)
    ELSE compare_single_output_dip(self,
             list_of(labels_found_dip(output_item.raw_response, strat),
                     set_order),
             output_item, strat)

\* the loop of process_violation_type over the records items, with the
\* comparator self, the overall_stats stats and the results done so far;
\* re.findall raises TypeError on a raw_response that is null
RECURSIVE process_items(_, _, _, _, _, _)
process_compared(r, stats, done, items, strat, set_order) ==
    process_items(self_after(r), overall_stats_after(stats, r.ret),
                  Append(done, r.ret), items, strat, set_order)

process_items(self, stats, done, items, strat, set_order) ==
    IF items = <<>>
    THEN [raised |-> "", self |-> self, stats |-> stats, done |-> done]
    ELSE IF Get(Head(items), "raw_response", <<>>) = Null
    THEN [raised |-> "TypeError", self |-> self, stats |-> stats, done |-> done]
    ELSE process_compared(
             compare_single_output(self, Head(items), strat, set_order),
             stats, done, Tail(items), strat, set_order)

\* process_violation_type: the results dict after the group, or the
\* exception that left the loop
process_violation_type(p, violation_type, the_results) ==
    IF p.raised # ""
    THEN [raised |-> p.raised, self |-> p.self, ret |-> the_results]
    ELSE [raised |-> "", self |-> p.self,
          ret |-> [the_results EXCEPT
                     !.overall_stats = p.stats,
                     !.violation_results =
                         With(@, violation_type, violation_type_entry(p.done))]]

\* the loop of compare_model_outputs over the groups of the file
RECURSIVE process_groups(_, _, _, _, _, _)
process_groups(o, types, output_data, keys, strat, set_order) ==
    IF o.raised # "" \/ types = <<>>
    THEN o
    ELSE process_groups(
             process_violation_type(
                 process_items(o.self, o.ret.overall_stats, <<>>,
                               grouped(output_data, keys, Head(types)),
                               strat, set_order),
                 Head(types), o.ret),
             Tail(types), output_data, keys, strat, set_order)

\* the violation types compare_model_outputs processes, in order
processed_types(keys) ==
    IF impl = "dip"
    THEN (IF "dip" \in Range(keys) THEN <<"dip">> ELSE <<>>)
    ELSE LET is_type(key) == key \in Range(violation_types[impl])
         IN SelectSeq(key_order(keys), is_type)

\* compare_model_outputs after the file was loaded; .lower() raises
\* AttributeError on a violation_type that is null
compare_loaded(self, output_data, model_folder, prompt_type, set_order) ==
    IF output_data = <<>>
    THEN [raised |-> "", self |-> self,
          ret |-> output_file_error(model_folder, prompt_type, "No data loaded")]
    ELSE IF \E i \in DOMAIN output_data :
                Get(output_data[i], "violation_type", <<>>) = Null
    THEN [raised |-> "AttributeError", self |-> self, ret |-> <<>>]
    ELSE LET keys == [i \in DOMAIN output_data |->
                         Str(Lower(Get(output_data[i], "violation_type", <<>>)))]
             total == IF impl = "dip"
                      THEN Len(grouped(output_data, keys, "dip"))
                      ELSE Len(output_data)
         IN process_groups(
                [raised |-> "", self |-> self,
                 ret |-> [model |-> model_folder, prompt_type |-> prompt_type,
                          total_items |-> total,
                          violation_results |-> <<>>,
                          overall_stats |-> fresh_results.overall_stats]],
                processed_types(keys), output_data, keys, prompt_type, set_order)

\* compare_model_outputs on the output file of the folder: ret is what it
\* returns, raised the exception that leaves it, "" when none does
compare_model_outputs(self, output_file, model_folder, prompt_type, set_order) ==
    IF ~output_file.exists
    THEN [raised |-> "", self |-> self,
          ret |-> output_file_error(model_folder, prompt_type, "Output file not found")]
    ELSE compare_loaded(self, load_jsonl_file(output_file),
                        model_folder, prompt_type, set_order)

\* the orders in which a set of labels can be iterated
SetOrders == Orderings({"DIP", "SRP"})

\* the list is emptied once it is written
save_failed_extraction_cases_and_clear(self, files, output_file) ==
    [self |-> [self EXCEPT !.failed = <<>>],
     files |-> IF self.failed = <<>> THEN files
               ELSE With(files, output_file, self.failed)]

\* save_failed_extraction_cases: the comparator and the files after the call
save_failed_extraction_cases(self, files, output_file) ==
    [self |-> self,
     files |-> IF self.failed = <<>> THEN files
               ELSE With(files, output_file, self.failed)]

\* how many cases of the list have value v in field k
count_field(cases, k, v) == Cardinality({i \in DOMAIN cases : cases[i][k] = v})

cases_with(cases, k, v) ==
    LET has(case) == case[k] = v IN SelectSeq(cases, has)

field_values(cases, k) == {cases[i][k] : i \in DOMAIN cases}

\* save_multiple_violation_cases of vio_compare_t2.py: the cases by expected
\* violation and model, and the counts
multiple_violations_report_t2(cases) ==
    [summary |->
        [total_cases |-> Len(cases),
         by_violation_type |->
            [v \in field_values(cases, "expected_violation") |->
                count_field(cases, "expected_violation", v)],
         by_model |-> [m \in field_values(cases, "model") |->
                          count_field(cases, "model", m)]],
     cases_by_violation_type |->
        [v \in field_values(cases, "expected_violation") |->
            [m \in field_values(cases_with(cases, "expected_violation", v), "model") |->
                cases_with(cases_with(cases, "expected_violation", v), "model", m)]],
     all_cases |-> cases]

\* save_multiple_violation_cases of reprocess_dip: the cases by model
multiple_violations_report_dip(cases) ==
    [summary |->
        [total_cases |-> Len(cases),
         focus |-> "DIP violations with multiple detections",
         by_model |-> [m \in field_values(cases, "model") |->
                          count_field(cases, "model", m)]],
     cases_by_model |->
        [m \in field_values(cases, "model") |-> cases_with(cases, "model", m)],
     all_cases |-> cases]

save_multiple_violation_cases(self, files, output_file) ==
    [self |-> self,
     files |-> IF self.multiple = <<>> THEN files
               ELSE With(files, output_file,
                         IF impl = "t2"
                         THEN multiple_violations_report_t2(self.multiple)
                         ELSE multiple_violations_report_dip(self.multiple))]

\* patterns_data of save_extracted_patterns, without the time stamp and the
\* constant lists
patterns_data_t2(patterns) ==
    [extracted_examples |->
        [violations_detected |-> patterns.violations,
         language_specific_code |-> patterns.language_patterns,
         refactoring_patterns |-> patterns.refactoring_patterns,
         code_structures |-> patterns.code_structures],
     pattern_statistics |->
        [total_violations_detected |->
             Len(patterns.violations.detected) + Len(patterns.violations.none_detected),
         languages_processed |-> DOMAIN patterns.language_patterns,
         violation_types_found |-> DOMAIN patterns.refactoring_patterns]]

patterns_data_dip(patterns) ==
    [extracted_examples |->
        [violations_detected |-> patterns.violations,
         language_specific_code |-> patterns.language_patterns,
         dip_refactoring_patterns |-> patterns.refactoring_patterns,
         code_structures |-> patterns.code_structures],
     pattern_statistics |->
        [total_violations_detected |->
             Len(patterns.violations.detected) + Len(patterns.violations.none_detected),
         languages_processed |-> DOMAIN patterns.language_patterns,
         dip_patterns_found |-> DOMAIN patterns.refactoring_patterns]]

save_extracted_patterns(self, files, output_file) ==
    [self |-> self,
     files |-> With(files, output_file,
                    IF impl = "t2" THEN patterns_data_t2(self.patterns)
                    ELSE patterns_data_dip(self.patterns))]

\* the file names main() saves under
main_files ==
    [t2 |-> [multiple |-> "multiple_violations_for_review_v4.json",
             failed |-> "failed_extraction_for_review_v4.json",
             patterns |-> "extracted_regex_patterns.json"],
     dip |-> [multiple |-> "multiple_violations_dip_review.json",
              failed |-> "failed_extraction_dip_review.json",
              patterns |-> "extracted_regex_patterns_dip_only.json"]]

InitRun ==
    /\ impl \in {"t2", "dip"}
    /\ strategy = "default"
    /\ pc = "idle"
    /\ InitComparator
    /\ InitIdleDriver
    /\ InitIdleMatcher
    /\ InitIdleRun
    /\ ex_text = <<>> /\ ex_found = <<>> /\ ex_ret = None

\* run_full_comparison lists the directory and keeps the violation folders
run_full_comparison_begin ==
    /\ pc = "idle"
    /\ \E all_folders \in Listings :
          model_folders' = discovered_folders(all_folders)
    /\ all_results' = <<>>
    /\ pc' = "folders"
    /\ UNCHANGED <<output_files, written, impl, strategy, failed_extraction_cases,
                   multiple_violations_cases, extracted_patterns, gt_data, cur_vt,
                   violation_results, results, loaded, ex_text, ex_found, ex_ret,
                   fm_input, fm_result, cur_item>>

\* the turn of the loop after compare_model_outputs ended as o
FolderCompared(o, model_folder, actual_strategy) ==
    /\ failed_extraction_cases' = o.self.failed
    /\ multiple_violations_cases' = o.self.multiple
    /\ extracted_patterns' = o.self.patterns
    /\ IF o.raised # ""
       THEN /\ pc' = "raised"
            /\ UNCHANGED <<all_results, results>>
       ELSE /\ results' = o.ret
            /\ all_results' = With(all_results, model_folder,
                                   [s \in {actual_strategy} |-> o.ret])
            /\ pc' = pc

\* one turn of the loop over model_folders: the folder is compared under the
\* strategy of its name and the result stored, unless an exception leaves
\* compare_model_outputs and with it run_full_comparison
compare_next_folder ==
    /\ pc = "folders"
    /\ Len(output_files) < Len(model_folders)
    /\ \E output_file \in OutputFiles, set_order \in SetOrders :
          LET model_folder == model_folders[Len(output_files) + 1]
              actual_strategy == parse_folder_name(model_folder).strategy
          IN /\ strategy' = actual_strategy
             /\ output_files' = Append(output_files, output_file)
             /\ FolderCompared(
                    compare_model_outputs(comparator, output_file,
                        Str(model_folder), actual_strategy, set_order),
                    Str(model_folder), actual_strategy)
    /\ UNCHANGED <<model_folders, written, impl, gt_data, cur_vt,
                   violation_results, loaded, ex_text, ex_found, ex_ret,
                   fm_input, fm_result, cur_item>>

\* run_full_comparison returns all_results
run_full_comparison_return ==
    /\ pc = "folders"
    /\ Len(output_files) = Len(model_folders)
    /\ pc' = "returned"
    /\ UNCHANGED <<run_vars, impl, strategy, failed_extraction_cases,
                   multiple_violations_cases, extracted_patterns, gt_data, cur_vt,
                   violation_results, results, loaded, ex_text, ex_found, ex_ret,
                   fm_input, fm_result, cur_item>>

\* a save_* call returned s; main() saves after the run, a caller of the
\* comparator can save between two folders as well
Saved(s) ==
    /\ written' = s.files
    /\ failed_extraction_cases' = s.self.failed
    /\ multiple_violations_cases' = s.self.multiple
    /\ extracted_patterns' = s.self.patterns
    /\ UNCHANGED <<model_folders, output_files, all_results, impl, strategy,
                   gt_data, pc, cur_vt, violation_results, results, loaded,
                   ex_text, ex_found, ex_ret, fm_input, fm_result, cur_item>>

call_save_multiple_violation_cases ==
    /\ pc \in {"folders", "returned"}
    /\ Saved(save_multiple_violation_cases(comparator, written,
                                           main_files[impl].multiple))

call_save_failed_extraction_cases ==
    /\ pc \in {"folders", "returned"}
    /\ Saved(save_failed_extraction_cases(comparator, written,
                                          main_files[impl].failed))

call_save_extracted_patterns ==
    /\ pc \in {"folders", "returned"}
    /\ Saved(save_extracted_patterns(comparator, written,
                                     main_files[impl].patterns))

NextRun ==
    \/ run_full_comparison_begin
    \/ compare_next_folder
    \/ run_full_comparison_return
    \/ call_save_multiple_violation_cases
    \/ call_save_failed_extraction_cases
    \/ call_save_extracted_patterns

SpecRun == InitRun /\ [][NextRun]_vars

-----------------------------------------------------------------------------
(* The properties of the comparators.                                      *)

Last(s) == s[Len(s)]

\* the pattern the running comparator searches a response with
ActivePattern ==
    IF impl = "t2"
    THEN Get(strategy_regex_patterns_t2, strategy, strategy_regex_patterns_t2["default"])
    ELSE IF impl = "dip"
    THEN Get(strategy_regex_patterns_dip, strategy, strategy_regex_patterns_dip["default"])
    ELSE ViolationExtractionPattern

\* every mention of a valid label in text, in upper case, in text order
Mentions(text) ==
    SelectSeq(UpperAll(re_findall(ActivePattern, text)), LAMBDA v : v \in Vocabulary)

\* the distinct labels text mentions
RecognizedLabels(text) == Range(Mentions(text))

\* one more record was compared: one iteration of the loop of
\* process_violation_type
ComparesOne == pc = "items" /\ loaded' = loaded + 1

\* the loop of process_violation_type has compared cur_item
JustCompared == pc = "items" /\ violation_results # <<>>

\* C1: a text that mentions one valid label N >= 2 times, in the form the
\* active rule recognizes, gives exactly one candidate label, in the t2 and
\* in the dip comparator, under every strategy.
C1_OneCandidatePerLabel ==
    (/\ pc = "returned"
     /\ impl \in {"t2", "dip"}
     /\ Len(Mentions(ex_text)) >= 2
     /\ Cardinality(RecognizedLabels(ex_text)) = 1)
    => Len(ex_found) = 1

\* C2: the extractor never returns a label outside the closed vocabulary
\* SRP, OCP, LSP, ISP, DIP, NONE: neither among the candidates nor as the
\* label extract_violation_type returns.
C2_ClosedVocabulary ==
    pc = "returned" =>
        /\ Range(ex_found) \subseteq Vocabulary
        /\ ex_ret \in Vocabulary \cup {None}

\* the ratio of the output snippet and pool record n, as the loop computes it
SimilarityTo(n) == SequenceMatcher_ratio(Strip(fm_input), Strip(gt_data[n].input))
ExactOrNormalized(n) ==
    \/ Strip(fm_input) = Strip(gt_data[n].input)
    \/ CollapseSpaces(Strip(fm_input)) = CollapseSpaces(Strip(gt_data[n].input))
Exceeds(n) == 10 * SimilarityTo(n).num > 9 * SimilarityTo(n).den
IsExactlyNineTenths(n) == 10 * SimilarityTo(n).num = 9 * SimilarityTo(n).den
Exact(n) == Strip(fm_input) = Strip(gt_data[n].input)
FuzzyOnly(n) == ~ExactOrNormalized(n) /\ Exceeds(n)

\* C3: when the pool holds a record whose input equals the output snippet
\* exactly and a separate record that only the fuzzy rule accepts,
\* find_ground_truth_by_input returns the record that is equal, whichever
\* of the two stands first in the pool.
C3_ExactMatchWins ==
    (/\ pc = "returned"
     /\ \E n \in DOMAIN gt_data : Exact(n)
     /\ \E n \in DOMAIN gt_data : FuzzyOnly(n)
     /\ \A n \in DOMAIN gt_data : Exact(n) \/ FuzzyOnly(n))
    => fm_result # 0 /\ Exact(fm_result)

\* C4: a pool record whose ratio to the output snippet is exactly 0.9, and
\* which is neither equal nor equal after whitespace normalization, is never
\* the record returned; a record whose ratio exceeds 0.9 is matched, so a
\* record is returned, and it is that record when no record before it is
\* accepted by a rule; and when exactly one record exceeds 0.9 and none is
\* equal or normalized-equal, that record is the one returned.
C4_ThresholdBoundary ==
    pc = "returned" =>
        /\ \A n \in DOMAIN gt_data :
              (IsExactlyNineTenths(n) /\ ~ExactOrNormalized(n)) => fm_result # n
        /\ \A n \in DOMAIN gt_data :
              Exceeds(n) =>
                 /\ fm_result \in 1..n
                 /\ (\A m \in 1..(n - 1) : ~ExactOrNormalized(m) /\ ~Exceeds(m))
                       => fm_result = n
        /\ \A n \in DOMAIN gt_data :
              (/\ Exceeds(n)
               /\ \A m \in DOMAIN gt_data : m # n => ~Exceeds(m)
               /\ \A m \in DOMAIN gt_data : ~ExactOrNormalized(m))
              => fm_result = n

\* a record at exactly 0.9 is passed over and the record after it, which only
\* the fuzzy rule accepts, is returned
C4_Witness ==
    /\ pc = "returned"
    /\ Len(gt_data) = 2
    /\ IsExactlyNineTenths(1) /\ ~ExactOrNormalized(1)
    /\ Exceeds(2) /\ ~ExactOrNormalized(2)
    /\ fm_result = 2

\* C5: every compare_single_output call of the loop adds exactly one result
\* to the results of the group, and its status is one of PASS, FAIL, ERROR,
\* in the three comparators.
C5_EveryRecordClassified ==
    [][ComparesOne =>
          /\ Len(violation_results') = Len(violation_results) + 1
          /\ SubSeq(violation_results', 1, Len(violation_results)) = violation_results
          /\ "status" \in DOMAIN Last(violation_results')
          /\ Last(violation_results').status \in {"PASS", "FAIL", "ERROR"}]_vars

\* three records of one group were classified PASS, FAIL and ERROR
C5_Witness ==
    /\ pc = "items"
    /\ Len(violation_results) = 3
    /\ {violation_results[i].status : i \in 1..3} = {"PASS", "FAIL", "ERROR"}

\* no record of the pool is equal, normalized-equal or above 0.9 to cur_item
NoGroundTruthFor(item) ==
    \A n \in DOMAIN gt_data :
        LET o == Strip(item.input)
            g == Strip(gt_data[n].input)
            sim == SequenceMatcher_ratio(o, g)
        IN /\ o # g
           /\ CollapseSpaces(o) # CollapseSpaces(g)
           /\ ~(10 * sim.num > 9 * sim.den)

\* C6: in the external-ground-truth comparator, a record whose input no pool
\* record matches exactly, after normalization or above 0.9 is classified
\* ERROR with the reason 'No matching ground truth found', never FAIL.
C6_UnmatchedIsError ==
    (JustCompared /\ impl = "trials" /\ NoGroundTruthFor(cur_item))
    => /\ Last(violation_results).status = "ERROR"
       /\ Last(violation_results).error = "No matching ground truth found"

\* a record was compared with a pool that holds records, none matching
C6_Witness ==
    /\ JustCompared /\ impl = "trials"
    /\ gt_data # <<>>
    /\ NoGroundTruthFor(cur_item)
    /\ Last(violation_results).status = "ERROR"

\* C7: when the rule of the strategy recognizes no label in the response,
\* the embedded-label comparators append one case to failed_extraction_cases,
\* with the raw response, the raw input, the pattern used and the reason
\* NO_MATCH, and the result of the record is FAIL with no detected label.
C7_NoMatchIsPreserved ==
    [][(/\ ComparesOne
        /\ impl \in {"t2", "dip"}
        /\ RecognizedLabels(cur_item'.raw_response) = {})
       => /\ Len(failed_extraction_cases') = Len(failed_extraction_cases) + 1
          /\ SubSeq(failed_extraction_cases', 1, Len(failed_extraction_cases))
                = failed_extraction_cases
          /\ LET case == Last(failed_extraction_cases')
             IN /\ case.id = cur_item'.id
                /\ case.reason = "NO_MATCH"
                /\ case.raw_response = Str(cur_item'.raw_response)
                /\ case.input_code = Str(cur_item'.input)
                /\ case.pattern_used = ActivePattern
          /\ multiple_violations_cases' = multiple_violations_cases
          /\ Last(violation_results').status = "FAIL"
          /\ Last(violation_results').detected_violation = None]_vars

\* a record with no label in its response was compared by vio_compare_t2
C7_Witness ==
    /\ JustCompared /\ impl = "t2"
    /\ RecognizedLabels(cur_item.raw_response) = {}
    /\ failed_extraction_cases # <<>>
    /\ Last(failed_extraction_cases).id = cur_item.id
    /\ Last(violation_results).status = "FAIL"

\* C8: when the response mentions more than one distinct label, the record is
\* FAIL with no detected label, and a case with the reason
\* MULTIPLE_VIOLATIONS (reprocess_dip spells it MULTIPLE_UNIQUE_VIOLATIONS)
\* and the full candidate list is appended to the manual-review side channel.
C8_MultipleViolationsFail ==
    (/\ JustCompared
     /\ Last(violation_results).status # "ERROR"
     /\ Cardinality(RecognizedLabels(cur_item.raw_response)) > 1)
    => /\ Last(violation_results).status = "FAIL"
       /\ Last(violation_results).detected_violation = None
       /\ multiple_violations_cases # <<>>
       /\ Last(multiple_violations_cases).id = cur_item.id
       /\ Last(multiple_violations_cases).reason
             \in {"MULTIPLE_VIOLATIONS", "MULTIPLE_UNIQUE_VIOLATIONS"}
       /\ Range(Last(multiple_violations_cases).all_violations_found)
             = RecognizedLabels(cur_item.raw_response)

\* C9: in the embedded-label comparators a record is PASS exactly when its
\* response mentions one distinct label and that label is the expected one;
\* when it mentions one distinct label that differs, it is FAIL and the
\* label is reported, however often the label is mentioned.
C9_PassIffSingleExpected ==
    (JustCompared /\ impl \in {"t2", "dip"})
    => LET labels == RecognizedLabels(cur_item.raw_response)
           expected == Str(Upper(cur_item.violation_type))
           result == Last(violation_results)
       IN /\ (result.status = "PASS") <=> (labels = {expected})
          /\ (Cardinality(labels) = 1 /\ labels # {expected})
                => /\ result.status = "FAIL"
                   /\ result.detected_violation \in labels

\* the sum of f[x] over the elements x of S
RECURSIVE SumOver(_, _)
SumOver(S, f) ==
    IF S = {} THEN 0
    ELSE LET x == CHOOSE y \in S : TRUE IN f[x] + SumOver(S \ {x}, f)

HowMany(items, st) == Cardinality({i \in DOMAIN items : items[i].status = st})

\* C10: the stats of every processed group satisfy total = pass + fail +
\* error = the number of records of the group, fail counts every FAIL result
\* whatever its failure reason, accuracy = pass / total, and between groups
\* the counters of overall_stats are the sums of the groups' counters.
C10_StatsAddUp ==
    pc # "idle" =>
        /\ \A vt \in DOMAIN results.violation_results :
              LET entry == results.violation_results[vt]
                  stats == entry.stats
              IN /\ stats.total = stats.pass + stats.fail + stats.error
                 /\ stats.total = Len(entry.items)
                 /\ stats.pass = HowMany(entry.items, "PASS")
                 /\ stats.fail = HowMany(entry.items, "FAIL")
                 /\ stats.error = HowMany(entry.items, "ERROR")
                 /\ stats.accuracy.num * stats.total = stats.pass * stats.accuracy.den
                 /\ stats.accuracy.den > 0
        /\ pc \in {"groups", "done"} =>
              LET groups == DOMAIN results.violation_results
                  of(field) == [vt \in groups |->
                                   results.violation_results[vt].stats[field]]
              IN /\ results.overall_stats.total_pass = SumOver(groups, of("pass"))
                 /\ results.overall_stats.total_fail = SumOver(groups, of("fail"))
                 /\ results.overall_stats.total_error = SumOver(groups, of("error"))

\* a group with a PASS, a FAIL and an ERROR record was processed
C10_Witness ==
    /\ pc = "groups"
    /\ \E vt \in DOMAIN results.violation_results :
          LET stats == results.violation_results[vt].stats
          IN stats.pass = 1 /\ stats.fail = 1 /\ stats.error = 1

-----------------------------------------------------------------------------
(* The rules of the strategies.                                            *)

\* the vocabulary labels text names in a line MOST IMPACTFUL VIOLATION: X
LabeledLineLabels(text) ==
    {Str(Upper(LabeledLineAt(text, j).group)) :
        j \in {k \in 1..Len(text) : LabeledLineAt(text, k).ok}} \cap Vocabulary

\* the vocabulary labels text names between emphasis markers
BoldLabels(text) == Range(UpperAll(re_findall(BoldPattern, text))) \cap Vocabulary

\* the vocabulary labels text names as bare words
KeywordLabels(text) ==
    Range(UpperAll(re_findall(KeywordPattern, text))) \cap Vocabulary

\* text has an emphasis marker
HasStars(text) == \E j \in 1..Len(text) : LitAt(text, j, Stars)

\* an extractor call of an embedded-label comparator has returned
ExtractorReturned == pc = "returned" /\ impl \in {"t2", "dip"}

\* C18: under the ensemble strategy, for a response that names vocabulary
\* labels both in a labeled line and between emphasis markers, the candidates
\* are the union of the labels of the two forms.
C18_EnsembleMergesBothForms ==
    (/\ ExtractorReturned /\ strategy = "ensemble"
     /\ LabeledLineLabels(ex_text) # {}
     /\ BoldLabels(ex_text) # {})
    => Range(ex_found) = LabeledLineLabels(ex_text) \cup BoldLabels(ex_text)

\* C19: under the ensemble strategy, when the response has a labeled line
\* naming the vocabulary label X, X is the label extract_violation_type
\* returns, whatever the response holds between emphasis markers.
C19_LabeledLinePreferred ==
    (/\ ExtractorReturned /\ strategy = "ensemble"
     /\ Cardinality(LabeledLineLabels(ex_text)) = 1)
    => {ex_ret} = LabeledLineLabels(ex_text)

\* C20: for a response without emphasis markers that names one vocabulary
\* label as a bare word, the candidates are none under example and smell
\* and that one label under default.
C20_OneRulePerStrategy ==
    (/\ ExtractorReturned
     /\ ~HasStars(ex_text)
     /\ Cardinality(KeywordLabels(ex_text)) = 1)
    => /\ strategy \in {"example", "smell"} => ex_found = <<>>
       /\ strategy = "default" => Range(ex_found) = KeywordLabels(ex_text)

\* a response that names one label twice as a bare word went through the
\* example rule of vio_compare_t2.py, which found nothing
C20_Witness ==
    /\ ExtractorReturned /\ impl = "t2" /\ strategy = "example"
    /\ ~HasStars(ex_text)
    /\ Len(re_findall(KeywordPattern, ex_text)) = 2
    /\ Cardinality(KeywordLabels(ex_text)) = 1
    /\ ex_found = <<>>

-----------------------------------------------------------------------------
(* The two ground-truth modes.                                             *)

\* the stats blocks the run has stored
StatsBlocks ==
    IF pc = "idle" THEN {}
    ELSE {results.violation_results[vt].stats :
             vt \in DOMAIN results.violation_results}

\* C15: in the embedded-label comparators no result has the status ERROR,
\* the error count of every stats block is 0 and total_error stays 0.
C15_EmbeddedNeverError ==
    impl \in {"t2", "dip"} =>
        /\ \A i \in DOMAIN violation_results : violation_results[i].status # "ERROR"
        /\ \A stats \in StatsBlocks : stats.error = 0
        /\ pc # "idle" => results.overall_stats.total_error = 0

\* vio_compare_t2.py stored the stats of a group whose extraction failed for
\* one record and succeeded for another
C15_Witness ==
    /\ impl = "t2" /\ pc = "groups"
    /\ failed_extraction_cases # <<>>
    /\ \E stats \in StatsBlocks : stats.pass = 1 /\ stats.fail >= 1 /\ stats.error = 0

-----------------------------------------------------------------------------
(* The secondary analyses and the classification.                          *)

\* the results compare_single_output can return for the record item in the
\* current state (reprocess_dip: one for each order of its set of labels)
ResultsFor(item) ==
    CASE impl = "t2" ->
           {compare_single_output_t2(comparator,
                labels_found_t2(item.raw_response, strategy),
                item, strategy).ret}
      [] impl = "dip" ->
           {compare_single_output_dip(comparator, found, item, strategy).ret :
               found \in Orderings(
                   labels_found_dip(item.raw_response, strategy))}
      [] impl = "trials" -> {compare_single_output_trials(comparator, item, gt_data).ret}

\* the records the loop of process_violation_type can be handed next
NextItems ==
    IF pc = "items" /\ loaded < MaxItems THEN OutputItems(cur_vt, loaded + 1)
    ELSE {}

\* the two records agree in what the classification rests on
SameGrounds(a, b) ==
    /\ RecognizedLabels(a.raw_response) = RecognizedLabels(b.raw_response)
    /\ Upper(a.violation_type) = Upper(b.violation_type)
    /\ impl = "trials" =>
          find_ground_truth_by_input(a, gt_data) = find_ground_truth_by_input(b, gt_data)

\* C16: two records with the same recognized label set, the same expected
\* label and, in the external mode, the same ground-truth match outcome get
\* the same status, whatever code blocks their responses hold; and a result
\* for a response without code blocks has empty analyses.
C16_AnalysesLeaveStatusAlone ==
    /\ \A a, b \in NextItems :
          SameGrounds(a, b) =>
             \A ra \in ResultsFor(a), rb \in ResultsFor(b) : ra.status = rb.status
    /\ \A a \in NextItems :
          \A ra \in ResultsFor(a) :
             ("code_blocks" \in DOMAIN ra /\ ra.code_blocks = <<>>)
                => ra.language_analysis = <<>> /\ ra.violation_analysis = <<>>

-----------------------------------------------------------------------------------------------------------------------------------------------------
(* The records of a group are independent of each other.                   *)

\* what compare_single_output of the comparator self returns for the record
\* item
OutcomesFor(self, item) ==
    CASE impl = "t2" ->
           {compare_single_output_t2(self,
                labels_found_t2(item.raw_response, strategy),
                item, strategy)}
      [] impl = "dip" ->
           {compare_single_output_dip(self, found, item, strategy) :
               found \in Orderings(
                   labels_found_dip(item.raw_response, strategy))}
      [] impl = "trials" -> {compare_single_output_trials(self, item, gt_data)}

\* the entries of list after its first n
After(list, n) == SubSeq(list, n + 1, Len(list))

\* the result of the record item and the entries it adds to the side-channel
\* lists of the comparator self
Contributions(self, item) ==
    {[ret |-> r.ret,
      failed |-> After(r.failed, Len(self.failed)),
      multiple |-> After(r.multiple, Len(self.multiple))] :
        r \in OutcomesFor(self, item)}

\* C17: the result a record gets, and the entries it adds to the side-channel
\* lists, are the same after whatever records the comparator has compared
\* as they are for a new comparator.  With the counts being the numbers of
\* PASS, FAIL and ERROR results of the group (C10), every order of the
\* records of a group then gives the same counts and accuracy and the same
\* entries in the side-channel lists.
C17_RecordsAreIndependent ==
    \A item \in NextItems :
        Contributions(comparator, item) = Contributions(fresh_comparator, item)

\* two records of a group were compared, one whose response holds no label
\* and one whose response holds several, and the loop goes on
C17_Witness ==
    /\ JustCompared /\ impl \in {"t2", "dip"}
    /\ NextItems # {}
    /\ Len(violation_results) = 2
    /\ failed_extraction_cases # <<>>
    /\ multiple_violations_cases # <<>>

-----------------------------------------------------------------------------
(* The run over the folders, and the files it reads.                       *)

\* the result stored for the k-th folder of the run
FolderResult(k) ==
    all_results[Str(model_folders[k])][parse_folder_name(model_folders[k]).strategy]

\* the k-th folder was compared and its result stored
FolderStored(k) ==
    /\ k \in DOMAIN output_files
    /\ Str(model_folders[k]) \in DOMAIN all_results

\* the lines of the file that are JSON, and those that are not
JsonLines(file) ==
    {i \in DOMAIN file.lines : "json" \in DOMAIN file.lines[i]}
UnparseableLines(file) ==
    {i \in DOMAIN file.lines :
        "json" \notin DOMAIN file.lines[i] /\ file.lines[i].text # ""}

\* C11: processing a loaded output record, null fields included, yields a
\* result object: no exception leaves compare_model_outputs.
C11_EveryRecordYieldsResult == pc # "raised"

\* a file that is missing, empty or malformed
Unusable(file) ==
    \/ ~file.exists
    \/ JsonLines(file) = {}
    \/ UnparseableLines(file) # {}

\* C12: a folder whose output file is missing, empty or malformed gets an
\* entry with status ERROR under the strategy of its name and does not stop
\* the run; when run_full_comparison returns, all_results holds one entry
\* for each discovered folder, and nothing else.
C12_RunCompletes ==
    /\ \A k \in DOMAIN output_files :
          Unusable(output_files[k]) =>
             /\ FolderStored(k)
             /\ DOMAIN all_results[Str(model_folders[k])] =
                    {parse_folder_name(model_folders[k]).strategy}
             /\ "status" \in DOMAIN FolderResult(k)
             /\ FolderResult(k).status = "ERROR"
    /\ pc = "returned" =>
          /\ Len(output_files) = Len(model_folders)
          /\ DOMAIN all_results = {Str(model_folders[k]) : k \in DOMAIN model_folders}

C12_Witness ==
    /\ pc = "returned"
    /\ Len(model_folders) = 2
    /\ output_files[1].exists
    /\ UnparseableLines(output_files[1]) # {}
    /\ FolderResult(1).status = "ERROR"
    /\ "total_items" \in DOMAIN FolderResult(2)
    /\ FolderResult(2).overall_stats.total_pass = 2

\* C13: of a file with well-formed and unparseable lines only the unparseable
\* lines are left out: the well-formed records are loaded, counted and
\* classified.
C13_OnlyUnparseableLinesSkipped ==
    \A k \in DOMAIN output_files :
        LET file == output_files[k]
        IN (/\ FolderStored(k)
            /\ file.exists
            /\ JsonLines(file) # {}
            /\ UnparseableLines(file) # {})
           => /\ "total_items" \in DOMAIN FolderResult(k)
              /\ FolderResult(k).total_items = Cardinality(JsonLines(file))

-----------------------------------------------------------------------------
(* The accumulators of the comparator.                                     *)

IsPrefix(a, b) == Len(a) <= Len(b) /\ SubSeq(b, 1, Len(a)) = a

\* every list of the dict f is in g, with its entries where they were
PrefixEach(f, g) ==
    /\ DOMAIN f \subseteq DOMAIN g
    /\ \A k \in DOMAIN f : IsPrefix(f[k], g[k])

\* C14: the accumulators are append-only: across every compare and save_*
\* step each entry that was present is still present, unchanged and at the
\* same position.
C14_AccumulatorsAppendOnly ==
    [][/\ IsPrefix(failed_extraction_cases, failed_extraction_cases')
       /\ IsPrefix(multiple_violations_cases, multiple_violations_cases')
       /\ PrefixEach(extracted_patterns.violations, extracted_patterns'.violations)
       /\ PrefixEach(extracted_patterns.language_patterns,
                     extracted_patterns'.language_patterns)
       /\ PrefixEach(extracted_patterns.refactoring_patterns,
                     extracted_patterns'.refactoring_patterns)
       /\ PrefixEach(extracted_patterns.code_structures,
                     extracted_patterns'.code_structures)]_vars

\* a save between two folders: the file of the failed cases holds fewer
\* cases than the comparator has by now
C14_Witness ==
    /\ main_files[impl].failed \in DOMAIN written
    /\ main_files[impl].patterns \in DOMAIN written
    /\ Len(written[main_files[impl].failed]) < Len(failed_extraction_cases)
    /\ extracted_patterns.violations.detected # <<>>

-----------------------------------------------------------------------------
(* The emphasis-delimited rule.                                            *)

\* at position j of text stand the markers, n letters and the markers again
BoldWordAt(text, j, n) ==
    /\ j + n + 3 <= Len(text)
    /\ text[j] = "*" /\ text[j + 1] = "*"
    /\ \A k \in (j + 2)..(j + n + 1) : IsLetter(text[k])
    /\ text[j + n + 2] = "*" /\ text[j + n + 3] = "*"

\* the vocabulary labels wrapped directly in the markers at position j, in
\* any letter case
WrappedLabelsAt(text, j) ==
    {Str(Upper(SubSeq(text, j + 2, j + n + 1))) :
        n \in {m \in 3..4 : BoldWordAt(text, j, m)}} \cap Vocabulary

\* the opening markers at position j belong to no wrapped word that starts
\* further left
OwnMarkersAt(text, j) ==
    \A k \in 1..(j - 1) : \A n \in 2..4 :
        (/\ BoldWordAt(text, k, n)
         /\ n = 4 => Upper(SubSeq(text, k + 2, k + 5)) = NONE)
        => k + n + 4 <= j

\* the strategies whose rule is the emphasis-delimited one alone
BoldRuleActive ==
    \/ strategy \in {"example", "smell"}
    \/ impl = "t2" /\ strategy = "ensemble"

\* C21: under the emphasis-delimited rule every candidate is an upper-case
\* vocabulary label that stands, in some letter case, directly between two
\* marker pairs of the text, and every label that stands so between marker
\* pairs of its own is a candidate: **srp** gives SRP, **SRP ** gives nothing.
C21_BoldRuleIgnoresCase ==
    (ExtractorReturned /\ BoldRuleActive)
    => /\ \A l \in Range(ex_found) :
             \E j \in 1..Len(ex_text) : l \in WrappedLabelsAt(ex_text, j)
       /\ \A j \in 1..Len(ex_text) :
             OwnMarkersAt(ex_text, j) => WrappedLabelsAt(ex_text, j) \subseteq Range(ex_found)

\* a response with **srp** and a label that a blank separates from its
\* closing markers: SRP alone is found
C21_Witness ==
    /\ ExtractorReturned /\ strategy = "smell"
    /\ ex_text = <<"*","*","s","r","p","*","*">> \o Stars
                    \o <<"S","R","P"," ","*","*">>
    /\ ex_found = <<"SRP">>
    /\ ex_ret = "SRP"

-----------------------------------------------------------------------------
(* The labeled line of the ensemble rule.                                  *)

\* the labels of the closed vocabulary, as a response spells them
VocabularyWords == {SRP, OCP, LSP, ISP, DIP, NONE}

\* C25: under the ensemble strategy of reprocess_dip a response that is the
\* line MOST IMPACTFUL VIOLATION: X, for a label X of the closed vocabulary,
\* NONE included, gives the candidates {X}.
C25_LabeledLineKnowsVocabulary ==
    \A X \in VocabularyWords :
        (/\ pc = "returned" /\ impl = "dip" /\ strategy = "ensemble"
         /\ ex_text = MostImpactful \o <<" ">> \o X)
        => Range(ex_found) = {Str(X)}

-----------------------------------------------------------------------------
(* The pattern a side-channel case names.                                  *)

\* C27: for every strategy, one outside default, ensemble, example and smell
\* included, the pattern_used of a failed-extraction or multiple-violations
\* case is the pattern extract_violations_by_strategy searched the response
\* with.
C27_PatternUsedIsApplied ==
    ExtractorReturned =>
        /\ \A i \in DOMAIN failed_extraction_cases :
              failed_extraction_cases[i].pattern_used = ActivePattern
        /\ \A i \in DOMAIN multiple_violations_cases :
              multiple_violations_cases[i].pattern_used = ActivePattern

-----------------------------------------------------------------------------
(* The fields of an embedded-label result.                                 *)

\* the fields of the result r agree
FieldsAgree(r) ==
    /\ r.status \in {"PASS", "FAIL"}
    /\ (r.status = "PASS") <=> (r.violation_match = TRUE)
    /\ (r.status = "PASS") <=>
          (r.failure_reason = None /\ r.detected_violation = r.expected_violation)
    /\ (r.detected_violation = None) <=> (r.failure_reason = "EXTRACTION_FAILED")
    /\ (r.status = "FAIL" /\ r.detected_violation # None)
          => r.failure_reason = "WRONG_VIOLATION"

\* C29: in every result of the embedded-label compare_single_output the
\* status is PASS exactly when violation_match is true, exactly when
\* failure_reason is None and the detected label is the expected one; the
\* detected label is None exactly when failure_reason is EXTRACTION_FAILED;
\* a FAIL with a detected label has failure_reason WRONG_VIOLATION.
C29_ResultFieldsAgree ==
    impl \in {"t2", "dip"} =>
        \A i \in DOMAIN violation_results : FieldsAgree(violation_results[i])

\* a group with a PASS, a failed extraction and a wrong label was compared
C29_Witness ==
    /\ impl \in {"t2", "dip"} /\ JustCompared
    /\ \E i, j, k \in DOMAIN violation_results :
          /\ violation_results[i].status = "PASS"
          /\ violation_results[j].failure_reason = "EXTRACTION_FAILED"
          /\ violation_results[k].failure_reason = "WRONG_VIOLATION"

-----------------------------------------------------------------------------
(* One accumulator entry for each compared record.                         *)

HowManyWith(items, Test(_)) == Cardinality({i \in DOMAIN items : Test(items[i])})

\* the number of results the calls of the run have returned so far that
\* pass Test: those of the stored groups and those of the group in progress
Produced(Test(_)) ==
    LET groups == DOMAIN results.violation_results
    IN SumOver(groups,
               [vt \in groups |->
                   HowManyWith(results.violation_results[vt].items, Test)])
       + (IF pc = "items" THEN HowManyWith(violation_results, Test) ELSE 0)

ExtractionFailed(r) == r.failure_reason = "EXTRACTION_FAILED"

Labelled(r) == r.detected_violation # None

\* C28: on a fresh embedded-label comparator, after any sequence of
\* compare_single_output calls, the results with failure_reason
\* EXTRACTION_FAILED are as many as the failed-extraction and the
\* multiple-violations cases together, and the results with a detected label
\* are as many as the entries of the detected-label list.
C28_OneEntryPerRecord ==
    (impl \in {"t2", "dip"} /\ pc # "idle") =>
        /\ Produced(ExtractionFailed)
              = Len(failed_extraction_cases) + Len(multiple_violations_cases)
        /\ Produced(Labelled) = Len(extracted_patterns.violations.detected)

\* three records were compared: one gave no label, one several, one a label
C28_Witness ==
    /\ impl \in {"t2", "dip"} /\ pc # "idle"
    /\ Len(failed_extraction_cases) = 1
    /\ Len(multiple_violations_cases) = 1
    /\ Len(extracted_patterns.violations.detected) = 1
    /\ Produced(ExtractionFailed) = 2
    /\ Produced(Labelled) = 1

-----------------------------------------------------------------------------
(* The records a returned result accounts for.                             *)

\* C23: in a result compare_model_outputs returns, every loaded record is in
\* exactly one items list: as many results are stored as records were loaded,
\* and total_items = total_pass + total_fail + total_error = the sum of the
\* totals of the violation types.
C23_EveryRecordInOneList ==
    pc = "done" =>
        LET groups == DOMAIN results.violation_results
            in_lists == SumOver(groups,
                          [vt \in groups |-> Len(results.violation_results[vt].items)])
            totals == SumOver(groups,
                          [vt \in groups |-> results.violation_results[vt].stats.total])
        IN /\ in_lists = loaded
           /\ results.total_items = results.overall_stats.total_pass
                                      + results.overall_stats.total_fail
                                      + results.overall_stats.total_error
           /\ results.total_items = totals

-----------------------------------------------------------------------------
(* The record without ground truth.                                        *)

\* the step is a compare_single_output call of the trials comparator that
\* returned the ERROR result
ReturnedError ==
    /\ impl = "trials" /\ pc = "items"
    /\ Len(violation_results') = Len(violation_results) + 1
    /\ violation_results'[Len(violation_results')].status = "ERROR"

\* C24: a compare_single_output call whose lookup finds no ground-truth
\* record runs neither the extractor nor the code-block analyses: it leaves
\* extracted_patterns and the case lists of the comparator as they were.
C24_ErrorLeavesAccumulators ==
    [][ReturnedError =>
          UNCHANGED <<extracted_patterns, failed_extraction_cases,
                      multiple_violations_cases>>]_vars

\* the first record compared has a response the extractor finds a label in,
\* no ground truth, and the accumulators are those of construction
C24_Witness ==
    /\ impl = "trials" /\ JustCompared
    /\ Len(violation_results) = 1
    /\ violation_results[1].status = "ERROR"
    /\ extract_violation_type_trials(fresh_comparator, cur_item.raw_response).ret # None
    /\ extracted_patterns = fresh_extracted_patterns

-----------------------------------------------------------------------------
(* SpecTrials: one run_full_comparison call of the trials comparator over  *)
(* a directory of model folders, with the ground-truth directory gt_data,  *)
(* and the save_extracted_patterns call of main() after it.                *)

prompt_types == <<"default", "ensemble", "example", "smell">>

\* a record of an output file of the trials run
TrialsRecord(id, response, input) ==
    [id |-> id, model |-> "m", language |-> "JAVA", violation_type |-> DIP,
     raw_response |-> response, input |-> input]

\* what record number id of an output file can be, besides the record with
\* the label of the ground truth
OtherTrialsRecords(id) ==
    { TrialsRecord(id, Bold(NONE), SnA), TrialsRecord(id, <<"x">>, SnA),
      TrialsRecord(id, Bold(DIP), SnZ) }

\* the output_test.jsonl of a folder: no file, or at most MaxLines records
\* of which at most one is not the record with the label
TrialsFiles ==
    {Missing} \cup
    UNION {
      {File([i \in 1..n |-> JsonLine(TrialsRecord(i, Bold(DIP), SnA))])} \cup
      {File([i \in 1..n |-> JsonLine(IF i = kr[1] THEN kr[2]
                                     ELSE TrialsRecord(i, Bold(DIP), SnA))]) :
           kr \in UNION {{<<k, r>> : r \in OtherTrialsRecords(k)} : k \in 1..n}}
      : n \in 0..MaxLines }

\* the ground-truth directory: the code_examples of the file of a violation
\* type, for the types that have a file
GroundTruthDirs ==
    { <<>>,
      [dip |-> <<GroundTruth(SnA, DIP)>>],
      [srp |-> <<GroundTruth(SnA, SRP)>>],
      [dip |-> <<GroundTruth(SnA, NONE)>>],
      [dip |-> <<GroundTruth(SnA, SRP)>>, srp |-> <<>>] }

load_all_ground_truth(ground_truth_dir) ==
    [vt \in DOMAIN ground_truth_dir \cap Range(violation_types_trials) |->
        ground_truth_dir[vt]]

\* the loop of process_violation_type over the records items
RECURSIVE process_items_trials(_, _, _, _, _)
process_compared_trials(r, stats, done, items, ground_truth_items) ==
    process_items_trials(self_after(r), overall_stats_after(stats, r.ret),
                         Append(done, r.ret), items, ground_truth_items)

process_items_trials(self, stats, done, items, ground_truth_items) ==
    IF items = <<>>
    THEN [raised |-> "", self |-> self, stats |-> stats, done |-> done]
    ELSE process_compared_trials(
             compare_single_output_trials(self, Head(items), ground_truth_items),
             stats, done, Tail(items), ground_truth_items)

\* the loop of compare_model_outputs over self.violation_types
RECURSIVE process_groups_trials(_, _, _, _, _)
process_groups_trials(o, types, output_data, keys, all_gt_data) ==
    IF types = <<>>
    THEN o
    ELSE process_groups_trials(
             process_violation_type(
                 process_items_trials(o.self, o.ret.overall_stats, <<>>,
                     grouped(output_data, keys, Head(types)),
                     all_gt_data[Head(types)]),
                 Head(types), o.ret),
             Tail(types), output_data, keys, all_gt_data)

\* compare_model_outputs of the trials comparator
compare_model_outputs_trials(self, output_file, model_folder, prompt_type, ground_truth_dir) ==
    LET output_data == load_jsonl_file(output_file)
        keys == [i \in DOMAIN output_data |->
                    Str(Lower(Get(output_data[i], "violation_type", <<>>)))]
        all_gt_data == load_all_ground_truth(ground_truth_dir)
        is_compared(vt) == vt \in Range(keys) /\ vt \in DOMAIN all_gt_data
    IN IF ~output_file.exists
       THEN [raised |-> "", self |-> self,
             ret |-> output_file_error(model_folder, prompt_type,
                                       "Output file not found")]
       ELSE IF output_data = <<>>
       THEN [raised |-> "", self |-> self,
             ret |-> output_file_error(model_folder, prompt_type, "No data loaded")]
       ELSE IF DOMAIN all_gt_data = {}
       THEN [raised |-> "", self |-> self,
             ret |-> output_file_error(model_folder, prompt_type,
                                       "No ground truth data loaded")]
       ELSE process_groups_trials(
                [raised |-> "", self |-> self,
                 ret |-> [model |-> model_folder, prompt_type |-> prompt_type,
                          total_items |-> Len(output_data),
                          violation_results |-> <<>>,
                          overall_stats |-> fresh_results.overall_stats]],
                SelectSeq(violation_types_trials, is_compared),
                output_data, keys, all_gt_data)

\* the dict save_extracted_patterns of the trials comparator writes has the
\* examples and the statistics of the one of vio_compare_t2.py
patterns_data_trials(patterns) == patterns_data_t2(patterns)

InitTrials ==
    /\ impl = "trials"
    /\ strategy = "default"
    /\ pc = "idle"
    /\ InitComparator
    /\ gt_data \in GroundTruthDirs
    /\ cur_vt = "" /\ violation_results = <<>> /\ results = <<>>
    /\ loaded = 0 /\ cur_item = <<>>
    /\ InitIdleMatcher
    /\ InitIdleRun
    /\ ex_text = <<>> /\ ex_found = <<>> /\ ex_ret = None

\* the loop over model_folders reaches the next folder: model_results = {};
\* results holds model_results while the prompt types are gone through
next_folder_trials ==
    /\ pc = "folders"
    /\ Len(output_files) < Len(model_folders)
    /\ output_files' \in {Append(output_files, output_file) :
                              output_file \in TrialsFiles}
    /\ results' = <<>>
    /\ pc' = "prompts"
    /\ UNCHANGED <<model_folders, all_results, written, impl, strategy,
                   failed_extraction_cases, multiple_violations_cases,
                   extracted_patterns, gt_data, cur_vt, violation_results,
                   loaded, ex_text, ex_found, ex_ret, fm_input, fm_result,
                   cur_item>>

\* the turn of the loop over self.prompt_types after compare_model_outputs
\* returned o
PromptTypeCompared(o, prompt_type) ==
    /\ strategy' = prompt_type
    /\ results' = With(results, prompt_type, o.ret)
    /\ failed_extraction_cases' = o.self.failed
    /\ multiple_violations_cases' = o.self.multiple
    /\ extracted_patterns' = o.self.patterns

\* one turn of the loop over self.prompt_types: the output file of the
\* folder is compared under the next prompt type
compare_next_prompt_type ==
    /\ pc = "prompts"
    /\ Cardinality(DOMAIN results) < Len(prompt_types)
    /\ PromptTypeCompared(
           compare_model_outputs_trials(comparator, Last(output_files),
               Str(model_folders[Len(output_files)]),
               prompt_types[Cardinality(DOMAIN results) + 1], gt_data),
           prompt_types[Cardinality(DOMAIN results) + 1])
    /\ UNCHANGED <<run_vars, impl, gt_data, pc, cur_vt, violation_results,
                   loaded, ex_text, ex_found, ex_ret, fm_input, fm_result,
                   cur_item>>

\* the prompt types are through: all_results[model_folder] = model_results
store_model_results ==
    /\ pc = "prompts"
    /\ Cardinality(DOMAIN results) = Len(prompt_types)
    /\ all_results' = With(all_results, Str(model_folders[Len(output_files)]),
                           results)
    /\ pc' = "folders"
    /\ UNCHANGED <<model_folders, output_files, written, impl, strategy,
                   failed_extraction_cases, multiple_violations_cases,
                   extracted_patterns, gt_data, cur_vt, violation_results,
                   results, loaded, ex_text, ex_found, ex_ret, fm_input,
                   fm_result, cur_item>>

\* main() saves the patterns after the run
call_save_extracted_patterns_trials ==
    /\ pc = "returned"
    /\ written' = With(written, "extracted_regex_patterns.json",
                       patterns_data_trials(extracted_patterns))
    /\ UNCHANGED <<model_folders, output_files, all_results, impl, strategy,
                   failed_extraction_cases, multiple_violations_cases,
                   extracted_patterns, gt_data, pc, cur_vt, violation_results,
                   results, loaded, ex_text, ex_found, ex_ret, fm_input,
                   fm_result, cur_item>>

NextTrials ==
    \/ run_full_comparison_begin
    \/ next_folder_trials
    \/ compare_next_prompt_type
    \/ store_model_results
    \/ run_full_comparison_return
    \/ call_save_extracted_patterns_trials

SpecTrials == InitTrials /\ [][NextTrials]_vars

\* the output records of the run: the records of the files of its folders
RecordsOfRun ==
    SumOver(DOMAIN output_files,
            [k \in DOMAIN output_files |->
                IF output_files[k].exists
                THEN Cardinality(JsonLines(output_files[k])) ELSE 0])

\* C26: in one run_full_comparison each output record is compared once,
\* under the one strategy of its folder: the folder has one entry in
\* all_results, and total_violations_detected of the patterns file is at most
\* the number of output records of the run.
C26_EachRecordComparedOnce ==
    /\ \A folder \in DOMAIN all_results :
          Cardinality(DOMAIN all_results[folder]) = 1
    /\ "extracted_regex_patterns.json" \in DOMAIN written =>
          written["extracted_regex_patterns.json"].pattern_statistics
              .total_violations_detected <= RecordsOfRun

-----------------------------------------------------------------------------
(* The confusion-matrix cells of the traceability export.                  *)

\* the sample record of a result item: its four cells
sample_record(json_key, violation_name, item_idx, item) ==
    LET expected_violation == Get(item, "expected_violation", "UNKNOWN")
        detected_violation == Get(item, "detected_violation", "NONE")
        violation_match == Get(item, "violation_match", FALSE)
    IN [sample_id |-> <<json_key, violation_name, item_idx>>,
        violation_type |-> expected_violation,
        detected_violation |-> detected_violation,
        violation_match |-> violation_match,
        tp |-> IF violation_match THEN 1 ELSE 0,
        fp |-> IF ~violation_match /\ detected_violation # "NONE" THEN 1 ELSE 0,
        fn |-> IF /\ ~violation_match /\ detected_violation = "NONE"
                  /\ expected_violation # "NONE" THEN 1 ELSE 0,
        tn |-> IF detected_violation = "NONE" /\ expected_violation = "NONE"
               THEN 1 ELSE 0]

\* the violation_results the export finds under a key of data, <<>> when none
violation_results_of(model_data, parts) ==
    LET strategy_of_key == Str(parts[3])
        violation_from_key == Str(Lower(Upper(parts[1])))
    IN IF strategy_of_key \in DOMAIN model_data
          /\ "violation_results" \in DOMAIN model_data[strategy_of_key]
       THEN model_data[strategy_of_key].violation_results
       ELSE IF violation_from_key \in DOMAIN model_data
               /\ "violation_results" \in DOMAIN model_data[violation_from_key]
       THEN model_data[violation_from_key].violation_results
       ELSE Get(model_data, "violation_results", <<>>)

\* all_samples of load_and_process_data_with_full_traceability, as a set:
\* data is the dict of the JSON file, names spell its keys
load_and_process_data_with_full_traceability(data, names) ==
    UNION {
      LET parts == split_dashes(name)
          found == IF Len(parts) >= 3
                   THEN violation_results_of(data[Str(name)], parts) ELSE <<>>
      IN UNION {
           IF "items" \in DOMAIN found[violation_name]
           THEN {sample_record(Str(name), violation_name, item_idx - 1,
                               found[violation_name].items[item_idx]) :
                    item_idx \in DOMAIN found[violation_name].items}
           ELSE {}
           : violation_name \in DOMAIN found }
      : name \in {n \in names : Str(n) \in DOMAIN data} }

\* the samples of the results the run has stored
Samples ==
    load_and_process_data_with_full_traceability(all_results, Range(model_folders))

\* C30: in the traceability export each result item adds 1 to exactly one of
\* the cells tp, fp, fn, tn, so the cells of a group add up to its samples.
C30_OneCellPerItem ==
    \A sample \in Samples : sample.tp + sample.fp + sample.fn + sample.tn = 1

-----------------------------------------------------------------------------
(* SpecMerge: after a run of vio_compare_t2.py over one folder, the        *)
(* detailed results are saved and match_dataset.py merges the rows of the  *)
(* manual review into them.                                                *)

json_path == "detailed_results_v5.json"
output_json_path == "detailed_results_v5_updated.json"
unmatched_log_path == "unmatched_entries_log_final.csv"

\* str.replace(old, ""), for a character old
without(s, old) == LET kept(c) == c # old IN SelectSeq(s, kept)

\* str.replace(old, new), for characters
replaced(s, old, new) == [i \in DOMAIN s |-> IF s[i] = old THEN new ELSE s[i]]

LANGUAGE_MAP ==
    [CSHARP |-> "C#", JAVA |-> "JAVA", PYTHON |-> "PYTHON", KOTLIN |-> "KOTLIN"]

\* bool() of a cell of the violation_match column: a bool, or the NaN of an
\* empty cell, which is true
bool(match_value) == match_value # "False"

\* a row of the review sheet
Row(model, strat, language, id, expected_violation, match_value) ==
    [file_model |-> model, strategy |-> strat, language |-> language, id |-> id,
     expected_violation |-> expected_violation, violation_match |-> match_value]

Rows ==
    { Row(<<" ","M">>, <<"D","e","f","a","u","l","t">>, <<"j","a","v","a">>, 1,
          <<"d","i","p">>, "True"),
      Row(<<" ","M">>, <<"D","e","f","a","u","l","t">>, <<"j","a","v","a">>, 1,
          <<"d","i","p">>, "False"),
      Row(<<" ","M">>, <<"D","e","f","a","u","l","t">>,
          <<"C"," ","S","h","a","r","p">>, 2, <<"d","i","p">>, "nan"),
      Row(<<"m">>, <<"s","m","e","l","l">>, <<"J","A","V","A">>, 1, SRP, "True"),
      Row(<<"m">>, <<"d","e","f","a","u","l","t">>, <<"j","a","v","a">>,
          MaxLines + 1, DIP, "True"),
      Row(<<"n",":","v","2">>, <<"e","n","s","e","m","b","l","e">>,
          <<"j","a","v","a">>, 1, DIP, "False") }

\* the review sheets: at most MaxRows rows
DataFrames == UNION {[1..n -> Rows] : n \in 0..MaxRows}

\* the characters of the language of a result item
language_chars ==
    [JAVA |-> <<"J","A","V","A">>, UNKNOWN |-> <<"U","N","K","N","O","W","N">>]

\* the fields the main loop takes from a row
normalized(row) ==
    LET raw_model == Strip(row.file_model)
        raw_language == Str(without(without(Upper(Strip(row.language)), " "), "_"))
        expected_violation == Upper(Strip(row.expected_violation))
        model_clean == Lower(replaced(raw_model, ":", "-"))
        strat == Lower(Strip(row.strategy))
    IN [strategy |-> Str(strat),
        language |-> Get(LANGUAGE_MAP, raw_language, raw_language),
        sample_id |-> row.id,
        expected_violation |-> Str(Lower(expected_violation)),
        match_value |-> row.violation_match,
        json_key |-> Str(Lower(expected_violation) \o <<"-","-">> \o model_clean
                         \o <<"-","-">> \o strat)]

\* the items the row names in data, [] when the block is not there
items_of(data, f) ==
    LET strategy_block == Get(data[f.json_key], f.strategy, <<>>)
        violation_block == Get(Get(strategy_block, "violation_results", <<>>),
                               f.expected_violation, <<>>)
    IN Get(violation_block, "items", <<>>)

\* one turn of the main loop: the row is merged into data or logged
merged(row, data, unmatched, updated) ==
    LET f == normalized(row)
        logged(reason) == Append(unmatched, With(row, "reason", reason))
        items == IF f.json_key \in DOMAIN data THEN items_of(data, f) ELSE <<>>
        at == Leftmost({i \in DOMAIN items : items[i].id = f.sample_id})
        json_lang == Str(Upper(Strip(
                         language_chars[Get(items[at], "language", "UNKNOWN")])))
    IN IF f.json_key \notin DOMAIN data
       THEN [data |-> data, unmatched |-> logged("JSON key not found"),
             updated |-> updated]
       ELSE IF at = 0
       THEN [data |-> data,
             unmatched |-> logged("Matching ID not found in violation block"),
             updated |-> updated]
       ELSE [data |-> [data EXCEPT
                         ![f.json_key][f.strategy].violation_results
                          [f.expected_violation].items[at].violation_match =
                             bool(f.match_value)],
             unmatched |-> IF json_lang # f.language
                           THEN logged("Language mismatch") ELSE unmatched,
             updated |-> updated + 1]

\* the main loop over the rows of df
RECURSIVE main_loop(_, _, _, _)
main_loop_on(m, df) == main_loop(df, m.data, m.unmatched, m.updated)

main_loop(df, data, unmatched, updated) ==
    IF df = <<>>
    THEN [data |-> data, unmatched |-> unmatched, updated |-> updated]
    ELSE main_loop_on(merged(Head(df), data, unmatched, updated), Tail(df))

\* the files after the script: the updated results, and the log when a row
\* was logged
saved_outputs(files, m) ==
    LET with_json == With(files, output_json_path, m.data)
    IN IF m.unmatched # <<>>
       THEN With(with_json, unmatched_log_path, m.unmatched)
       ELSE with_json

\* the folders of the run
MergeFolders == {DipMDefault, SrpMSmell, DipNV2Ensemble}

\* the state after run_full_comparison of vio_compare_t2.py returned from
\* the one folder model_folder with the output file output_file
AfterRun(model_folder, output_file, o) ==
    /\ o.raised = ""
    /\ model_folders = <<model_folder>>
    /\ output_files = <<output_file>>
    /\ strategy = parse_folder_name(model_folder).strategy
    /\ results = o.ret
    /\ all_results = [folder \in {Str(model_folder)} |->
                         [s \in {parse_folder_name(model_folder).strategy} |-> o.ret]]
    /\ failed_extraction_cases = o.self.failed
    /\ multiple_violations_cases = o.self.multiple
    /\ extracted_patterns = o.self.patterns

InitMerge ==
    /\ impl = "t2"
    /\ pc = "returned"
    /\ \E model_folder \in MergeFolders, output_file \in OutputFiles :
          AfterRun(model_folder, output_file,
                   compare_model_outputs(fresh_comparator, output_file,
                       Str(model_folder), parse_folder_name(model_folder).strategy,
                       <<"DIP", "SRP">>))
    /\ written = <<>>
    /\ gt_data = <<>> /\ cur_vt = "" /\ violation_results = <<>>
    /\ loaded = 0 /\ cur_item = <<>>
    /\ InitIdleMatcher
    /\ ex_text = <<>> /\ ex_found = <<>> /\ ex_ret = None

\* save_detailed_results(all_results, json_path)
call_save_detailed_results ==
    /\ pc = "returned"
    /\ written' = With(written, json_path, all_results)
    /\ pc' = "saved"
    /\ UNCHANGED <<model_folders, output_files, all_results, impl, strategy,
                   failed_extraction_cases, multiple_violations_cases,
                   extracted_patterns, gt_data, cur_vt, violation_results,
                   results, loaded, ex_text, ex_found, ex_ret, fm_input,
                   fm_result, cur_item>>

\* match_dataset.py runs on the saved results and a review sheet
match_dataset ==
    /\ pc = "saved"
    /\ \E df \in DataFrames :
          written' = saved_outputs(written,
                                   main_loop(df, written[json_path], <<>>, 0))
    /\ pc' = "merged"
    /\ UNCHANGED <<model_folders, output_files, all_results, impl, strategy,
                   failed_extraction_cases, multiple_violations_cases,
                   extracted_patterns, gt_data, cur_vt, violation_results,
                   results, loaded, ex_text, ex_found, ex_ret, fm_input,
                   fm_result, cur_item>>

NextMerge ==
    \/ call_save_detailed_results
    \/ match_dataset

SpecMerge == InitMerge /\ [][NextMerge]_vars

\* the result items of a detailed-results dict, each with its place
ItemsIn(data) ==
    UNION { UNION { UNION {
        {<<folder, s, vt, i, data[folder][s].violation_results[vt].items[i]>> :
            i \in DOMAIN data[folder][s].violation_results[vt].items}
        : vt \in DOMAIN Get(data[folder][s], "violation_results", <<>>) }
        : s \in DOMAIN data[folder] }
        : folder \in DOMAIN data }

\* C22: a result is produced once and no later step changes a field of it:
\* the items of the file the manual-review merge writes are the items the
\* run produced, field for field.
C22_ResultsNeverMutated ==
    output_json_path \in DOMAIN written =>
        ItemsIn(written[output_json_path]) = ItemsIn(all_results)

====
